---- MODULE Spec2Model ----
(***************************************************************************)
(* katcp-codec: the incremental KATCP line parser (src/src/parse.rs), its  *)
(* transition tables (src/build.rs, src/src/parse.rs) and the formatter    *)
(* (src/src/format.rs), as a state machine.                                *)
(*                                                                         *)
(* Bytes are the integers 0..255.  Option<T> values are records with a     *)
(* `some` flag (or the string "None" where T is an enumeration).           *)
(***************************************************************************)
EXTENDS Integers, Sequences, FiniteSets, TLC

(***************************************************************************)
(* Byte values named in the source.                                        *)
(***************************************************************************)
NUL == 0
TAB == 9
LF == 10
CR == 13
ESC == 27
SP == 32
BANG == 33
HASH == 35
DASH == 45
ZERO == 48
ONE == 49
NINE == 57
QMARK == 63
AT == 64
UPPER_A == 65
UPPER_Z == 90
LBRACKET == 91
BACKSLASH == 92
RBRACKET == 93
UNDERSCORE == 95
LOWER_A == 97
LOWER_E == 101
LOWER_N == 110
LOWER_R == 114
LOWER_T == 116
LOWER_Z == 122
BYTE_MAX == 255
I32_MAX == 2147483647

Byte == 0..BYTE_MAX

IsLetter(ch) == (ch >= UPPER_A /\ ch <= UPPER_Z) \/ (ch >= LOWER_A /\ ch <= LOWER_Z)
IsDigit(ch) == ch >= ZERO /\ ch <= NINE

(***************************************************************************)
(* enum State, enum Action, struct Entry.                                  *)
(***************************************************************************)
State ==
    {"Start", "Empty", "BeforeName", "Name", "BeforeId", "Id", "AfterId",
     "BeforeArgument", "Argument", "ArgumentEscape", "Error", "EndOfLine",
     "ErrorEndOfLine"}

is_terminal(s) == s \in {"EndOfLine", "ErrorEndOfLine"}

ActionKind ==
    {"Nothing", "Name", "Id", "Argument", "ArgumentEscaped", "SetType",
     "ResetLineLength", "Error"}

is_mergeable(kind) == kind \in {"Nothing", "Name", "Id", "Argument", "Error"}

\* Entry::new_full; `byte` is the payload of ArgumentEscaped, `mtype` of SetType.
new_full(kind, byte, mt, next, create) ==
    [action |-> kind, byte |-> byte, mtype |-> mt, state |-> next,
     create_argument |-> create]

\* Entry::new
new(kind, next) == new_full(kind, 0, "None", next, FALSE)

\* Entry::error
error_entry == new("Error", "Error")

\* A faulty make_error, under which the rows of Error and of the terminal states
\* read a line as Start does.
make_error_restart(ch) ==
    CASE ch = SP -> new("Nothing", "Empty")
      [] ch = QMARK -> new_full("SetType", 0, "Request", "BeforeName", FALSE)
      [] ch = BANG -> new_full("SetType", 0, "Reply", "BeforeName", FALSE)
      [] ch = HASH -> new_full("SetType", 0, "Inform", "BeforeName", FALSE)
      [] ch = LF -> new("ResetLineLength", "Start")
      [] OTHER -> error_entry

\* A faulty make_name, which does not take `-` as a byte of a name.
make_name_no_dash(ch) ==
    CASE IsLetter(ch) \/ IsDigit(ch) -> new("Name", "Name")
      [] ch = SP -> new("Nothing", "BeforeArgument")
      [] ch = LBRACKET -> new("Nothing", "BeforeId")
      [] ch = LF -> new("Nothing", "EndOfLine")
      [] OTHER -> error_entry

\* A faulty make_before_id, which lets an ID start with 0.
make_before_id_any_digit(ch) ==
    IF IsDigit(ch) THEN new("Id", "Id") ELSE error_entry

\* The closures handed to make_table, one per row of the table.
make_start(ch) ==
    CASE ch = SP -> new("Nothing", "Empty")
      [] ch = QMARK -> new_full("SetType", 0, "Request", "BeforeName", FALSE)
      [] ch = BANG -> new_full("SetType", 0, "Reply", "BeforeName", FALSE)
      [] ch = HASH -> new_full("SetType", 0, "Inform", "BeforeName", FALSE)
      [] ch = LF -> new("ResetLineLength", "Start")
      [] OTHER -> error_entry

make_empty(ch) ==
    CASE ch = SP -> new("Nothing", "Empty")
      [] ch = LF -> new("ResetLineLength", "Start")
      [] OTHER -> error_entry

make_before_name(ch) ==
    IF IsLetter(ch) THEN new("Name", "Name") ELSE error_entry

make_name(ch) ==
    CASE IsLetter(ch) \/ IsDigit(ch) \/ ch = DASH -> new("Name", "Name")
      [] ch = SP -> new("Nothing", "BeforeArgument")
      [] ch = LBRACKET -> new("Nothing", "BeforeId")
      [] ch = LF -> new("Nothing", "EndOfLine")
      [] OTHER -> error_entry

make_before_id(ch) ==
    IF ch >= ONE /\ ch <= NINE THEN new("Id", "Id") ELSE error_entry

make_id(ch) ==
    CASE IsDigit(ch) -> new("Id", "Id")
      [] ch = RBRACKET -> new("Nothing", "AfterId")
      [] OTHER -> error_entry

make_after_id(ch) ==
    CASE ch = SP -> new("Nothing", "BeforeArgument")
      [] ch = LF -> new("Nothing", "EndOfLine")
      [] OTHER -> error_entry

\* A faulty make_argument, under which the end of the line creates an argument
\* when it comes after blanks.
make_argument_eol_creates(create_argument, ch) ==
    CASE ch = SP -> new("Nothing", "BeforeArgument")
      [] ch = LF -> new_full("Nothing", 0, "None", "EndOfLine", create_argument)
      [] ch = BACKSLASH ->
           new_full("Nothing", 0, "None", "ArgumentEscape", create_argument)
      [] ch = NUL \/ ch = ESC -> error_entry
      [] OTHER -> new_full("Argument", 0, "None", "Argument", create_argument)

\* A faulty make_argument_escape, under which `\0` stands for the digit 0.
make_argument_escape_zero(ch) ==
    CASE ch = AT -> new("Nothing", "Argument")
      [] ch = BACKSLASH -> new_full("ArgumentEscaped", BACKSLASH, "None", "Argument", FALSE)
      [] ch = UNDERSCORE -> new_full("ArgumentEscaped", SP, "None", "Argument", FALSE)
      [] ch = ZERO -> new_full("ArgumentEscaped", ZERO, "None", "Argument", FALSE)
      [] ch = LOWER_N -> new_full("ArgumentEscaped", LF, "None", "Argument", FALSE)
      [] ch = LOWER_R -> new_full("ArgumentEscaped", CR, "None", "Argument", FALSE)
      [] ch = LOWER_E -> new_full("ArgumentEscaped", ESC, "None", "Argument", FALSE)
      [] ch = LOWER_T -> new_full("ArgumentEscaped", TAB, "None", "Argument", FALSE)
      [] OTHER -> error_entry

make_argument(create_argument, ch) ==
    CASE ch = SP -> new("Nothing", "BeforeArgument")
      [] ch = LF -> new("Nothing", "EndOfLine")
      [] ch = BACKSLASH ->
           new_full("Nothing", 0, "None", "ArgumentEscape", create_argument)
      [] ch = NUL \/ ch = ESC -> error_entry
      [] OTHER -> new_full("Argument", 0, "None", "Argument", create_argument)

make_argument_escape(ch) ==
    CASE ch = AT -> new("Nothing", "Argument")
      [] ch = BACKSLASH -> new_full("ArgumentEscaped", BACKSLASH, "None", "Argument", FALSE)
      [] ch = UNDERSCORE -> new_full("ArgumentEscaped", SP, "None", "Argument", FALSE)
      [] ch = ZERO -> new_full("ArgumentEscaped", NUL, "None", "Argument", FALSE)
      [] ch = LOWER_N -> new_full("ArgumentEscaped", LF, "None", "Argument", FALSE)
      [] ch = LOWER_R -> new_full("ArgumentEscaped", CR, "None", "Argument", FALSE)
      [] ch = LOWER_E -> new_full("ArgumentEscaped", ESC, "None", "Argument", FALSE)
      [] ch = LOWER_T -> new_full("ArgumentEscaped", TAB, "None", "Argument", FALSE)
      [] OTHER -> error_entry

make_error(ch) == error_entry

\* A faulty enum_map!, which fills the row of ArgumentEscape as it fills that of
\* Argument.
row_callback_no_escape_row(s, ch) ==
    CASE s = "Start" -> make_start(ch)
      [] s = "Empty" -> make_empty(ch)
      [] s = "BeforeName" -> make_before_name(ch)
      [] s = "Name" -> make_name(ch)
      [] s = "BeforeId" -> make_before_id(ch)
      [] s = "Id" -> make_id(ch)
      [] s = "AfterId" -> make_after_id(ch)
      [] s = "BeforeArgument" -> make_argument(TRUE, ch)
      [] s = "Argument" -> make_argument(FALSE, ch)
      [] s = "ArgumentEscape" -> make_argument(FALSE, ch)
      [] OTHER -> make_error(ch)

\* parser_table's enum_map!: which closure fills which row.
row_callback(s, ch) ==
    CASE s = "Start" -> make_start(ch)
      [] s = "Empty" -> make_empty(ch)
      [] s = "BeforeName" -> make_before_name(ch)
      [] s = "Name" -> make_name(ch)
      [] s = "BeforeId" -> make_before_id(ch)
      [] s = "Id" -> make_id(ch)
      [] s = "AfterId" -> make_after_id(ch)
      [] s = "BeforeArgument" -> make_argument(TRUE, ch)
      [] s = "Argument" -> make_argument(FALSE, ch)
      [] s = "ArgumentEscape" -> make_argument_escape(ch)
      [] OTHER -> make_error(ch)

\* A faulty generic rule, which leaves an LF entry in state Error as the closure
\* gave it.
promoted_lf_unpromoted(s) == row_callback(s, LF)

\* The LF entry of a row after make_table's generic rule (Error is promoted).
promoted_lf(s) ==
    LET e == row_callback(s, LF)
    IN IF e.state = "Error" THEN [e EXCEPT !.state = "ErrorEndOfLine"] ELSE e

\* A faulty make_table, which does not copy the entry of SP to TAB.
make_table_tab_own(s, ch) ==
    CASE ch = LF \/ ch = CR -> promoted_lf(s)
      [] OTHER -> row_callback(s, ch)

\* make_table: the row's entry for ch; TAB is a copy of SP and CR of LF.
make_table(s, ch) ==
    CASE ch = LF \/ ch = CR -> promoted_lf(s)
      [] ch = TAB -> row_callback(s, SP)
      [] OTHER -> row_callback(s, ch)

\* make_table's assertion on the LF entry of every row.
make_table_assertion ==
    \A s \in State : promoted_lf(s).state \in {"EndOfLine", "ErrorEndOfLine", "Start"}

\* The table before the fast tables are attached.  (f @@ <<>> is f itself, held
\* as an explicit table of values.)
PARSER_TABLE ==
    [s \in State |-> ([ch \in Byte |-> make_table(s, ch)] @@ <<>>)] @@ <<>>

\* A faulty bitmap, which takes every byte that stays in the state, whatever its
\* action.
fast_bits_any_action(st, kind) ==
    {ch2 \in Byte :
        /\ PARSER_TABLE[st][ch2].state = st
        /\ ~PARSER_TABLE[st][ch2].create_argument}

\* build_fast_tables: the bitmap computed for key (st, discriminant of the action).
fast_bits(st, kind) ==
    {ch2 \in Byte :
        /\ PARSER_TABLE[st][ch2].state = st
        /\ PARSER_TABLE[st][ch2].action = kind
        /\ ~PARSER_TABLE[st][ch2].create_argument}

\* build_fast_tables: the cache of bitmaps.
FAST_CACHE ==
    [s \in State |-> ([k \in ActionKind |-> fast_bits(s, k)] @@ <<>>)] @@ <<>>

\* A faulty build_fast_tables, which does not skip the actions that cannot be
\* merged.
fast_table_any_action(src_state, ch) ==
    LET entry == PARSER_TABLE[src_state][ch]
        bits == FAST_CACHE[entry.state][entry.action]
    IN  IF is_terminal(src_state) \/ is_terminal(entry.state) \/ bits = {}
        THEN [some |-> FALSE, bits |-> {}]
        ELSE [some |-> TRUE, bits |-> bits]

\* build_fast_tables: Entry.fast_table of TABLE[src_state][ch].
fast_table(src_state, ch) ==
    LET entry == PARSER_TABLE[src_state][ch]
        bits == FAST_CACHE[entry.state][entry.action]
    IN  IF is_terminal(src_state) \/ is_terminal(entry.state)
           \/ ~is_mergeable(entry.action) \/ bits = {}
        THEN [some |-> FALSE, bits |-> {}]
        ELSE [some |-> TRUE, bits |-> bits]

\* The fast tables attached to the entries of PARSER_TABLE.
FAST_TABLE ==
    [s \in State |-> ([ch \in Byte |-> fast_table(s, ch)] @@ <<>>)] @@ <<>>

(***************************************************************************)
(* struct Parser, struct Transient, struct ParseIterator.                  *)
(***************************************************************************)
VARIABLES
    state,            \* Parser.state
    line_length,      \* Parser.line_length
    max_line_length,  \* Parser.max_line_length
    mtype,            \* Parser.mtype: "None" or a MessageType
    name,             \* Parser.name
    mid,              \* Parser.mid
    arguments,        \* Parser.arguments
    error,            \* Parser.error
    iter,             \* "none", or "live" while a ParseIterator borrows the parser
    data,             \* ParseIterator.data
    transient,        \* ParseIterator.transient
    returned_none,    \* whether the live iterator has already returned None
    result,           \* what the most recent call of next() returned
    panicked,         \* a panic has unwound out of the parser
    input,            \* the bytes the caller has not appended yet
    consumed,         \* history: the bytes dispatched since construction or reset()
    outcomes,         \* history: the Ok/Err items returned since construction or reset()
    fully_iterated,   \* history: no iterator was dropped before it returned None
    trusted,          \* history: fully_iterated, and no iterator was called again after None
    slow,             \* a second parser and iterator, as Cur, fed the same calls, which
                      \* looks at no fast table and dispatches every byte by itself
    slow_result,      \* what its most recent call of next() returned
    looked_up,        \* the entry a reader of the table has looked up, and where
    message,          \* the Message handed to the formatter (NoMessage when there is none)
    returned_size,    \* what the most recent call of write_size() returned
    buffer,           \* the buffer most recently handed to write_out(), as it was handed
    returned_out,     \* what the most recent call of write_out() wrote and returned
    second_view,      \* the message as as_ref() gives its name and arguments when called again
    returned_vec      \* what the most recent call of to_vec() returned

vars ==
    <<state, line_length, max_line_length, mtype, name, mid, arguments, error,
      iter, data, transient, returned_none, result, panicked, input, consumed,
      outcomes, fully_iterated, trusted, slow, slow_result, looked_up, message,
      returned_size, buffer, returned_out, second_view, returned_vec>>

\* The variables of the formatter's calls.
formatter == <<returned_size, buffer, returned_out, second_view, returned_vec>>

MessageType == {"Request", "Reply", "Inform"}

NoneMid == [some |-> FALSE, value |-> 0]
SomeMid(v) == [some |-> TRUE, value |-> v]
NoneError == [some |-> FALSE, message |-> "", position |-> 0]

\* ParseError::new
ParseError(msg, position) == [some |-> TRUE, message |-> msg, position |-> position]

EmptyTransient == [name |-> <<>>, arguments |-> <<>>]

\* Message::new (format.rs); NoMessage stands for no message at all.
Message(mt, n, m, args) == [mtype |-> mt, name |-> n, mid |-> m, arguments |-> args]
NoMessage == Message("None", <<>>, NoneMid, <<>>)

\* The values next() returns: None, Some(Ok(msg)), Some(Err(error)); "Panic" when
\* the call unwinds, "NoCall" when the last operation was not next().
Item(kind) ==
    [kind |-> kind, mtype |-> "None", name |-> <<>>, mid |-> NoneMid,
     arguments |-> <<>>, message |-> "", position |-> 0]
OkItem(mt, n, m, args) == [Item("Ok") EXCEPT !.mtype = mt, !.name = n, !.mid = m, !.arguments = args]
ErrItem(e) == [Item("Err") EXCEPT !.message = e.message, !.position = e.position]

\* The parser and the iterator borrowing it, as one value.
Cur ==
    [state |-> state, line_length |-> line_length,
     max_line_length |-> max_line_length, mtype |-> mtype, name |-> name,
     mid |-> mid, arguments |-> arguments, error |-> error, data |-> data,
     t_name |-> transient.name, t_arguments |-> transient.arguments]

\* Parser::new
new_parser(max) ==
    [state |-> "Start", line_length |-> 0, max_line_length |-> max,
     mtype |-> "None", name |-> <<>>, mid |-> NoneMid, arguments |-> <<>>,
     error |-> NoneError, data |-> <<>>, t_name |-> <<>>, t_arguments |-> <<>>]

\* Parser::buffer_size
buffer_size(p) == p.line_length

\* extend_cow
extend_cow(cow, elements) == IF cow = <<>> THEN elements ELSE cow \o elements

\* A faulty reset, which leaves line_length as it is.
reset_keeps_line_length(p) ==
    [p EXCEPT !.state = "Start", !.mtype = "None", !.name = <<>>,
              !.mid = NoneMid, !.arguments = <<>>, !.error = NoneError]

\* A faulty reset, which leaves mid as it is.
reset_keeps_mid(p) ==
    [p EXCEPT !.state = "Start", !.line_length = 0, !.mtype = "None",
              !.name = <<>>, !.arguments = <<>>, !.error = NoneError]

\* Parser::reset
reset(p) ==
    [p EXCEPT !.state = "Start", !.line_length = 0, !.mtype = "None",
              !.name = <<>>, !.mid = NoneMid, !.arguments = <<>>,
              !.error = NoneError]

\* A faulty error_at, which records every error, the latest replacing the first.
error_at_overwrite(p, msg, position) ==
    [p EXCEPT !.state = IF p.state # "ErrorEndOfLine" THEN "Error" ELSE @,
              !.error = ParseError(msg, position),
              !.arguments = <<>>,
              !.t_arguments = <<>>]

\* Parser::error_at
error_at(p, msg, position) ==
    [p EXCEPT !.state = IF p.state # "ErrorEndOfLine" THEN "Error" ELSE @,
              !.error = IF ~p.error.some THEN ParseError(msg, position) ELSE @,
              !.arguments = <<>>,
              !.t_arguments = <<>>]

\* Parser::error
error_here(p, msg) == error_at(p, msg, p.line_length + 1)

\* A faulty reset_transient, which clears the Transient, the type and the error
\* but leaves the ID and the arguments the parser holds.
reset_transient_shallow(p) ==
    [p EXCEPT !.state = "Start", !.line_length = 0, !.mtype = "None",
              !.error = NoneError, !.t_name = <<>>, !.t_arguments = <<>>]

\* Parser::reset_transient
reset_transient(p) == [reset(p) EXCEPT !.t_name = <<>>, !.t_arguments = <<>>]

\* A faulty range check, which takes 2^31-1 itself for an overflow.
fits_i32_strict(m, d) == m * 10 + d < I32_MAX

\* i32::try_from(mid * 10 + d) succeeds; the product is never formed beyond 32 bits:
\* mid * 10 + d <= I32_MAX  iff  mid <= (I32_MAX - d) \div 10.
fits_i32(m, d) == m <= (I32_MAX - d) \div 10

\* Parser::apply, Action::Id: the loop over the digits of the chunk.
RECURSIVE apply_id(_, _, _)
apply_id(p, chunk, position) ==
    IF chunk = <<>> THEN p
    ELSE LET m == IF p.mid.some THEN p.mid.value ELSE 0
             d == Head(chunk) - ZERO
         IN  IF fits_i32(m, d)
             THEN apply_id([p EXCEPT !.mid = SomeMid(m * 10 + d)], Tail(chunk), position)
             ELSE error_at(p, "Message ID overflowed", position)

\* Whether the first match of Parser::apply unwinds (last_mut().unwrap() on no argument).
action_panics(p, entry) ==
    entry.action \in {"Argument", "ArgumentEscaped"} /\ p.t_arguments = <<>>

\* A faulty first match, under which ResetLineLength leaves line_length as it is.
apply_action_no_reset(p, entry, chunk, position) ==
    LET n == Len(p.t_arguments)
    IN  CASE entry.action = "SetType" -> [p EXCEPT !.mtype = entry.mtype]
          [] entry.action = "Name" -> [p EXCEPT !.t_name = extend_cow(@, chunk)]
          [] entry.action = "Id" -> apply_id(p, chunk, position)
          [] entry.action = "Argument" ->
               [p EXCEPT !.t_arguments[n] = extend_cow(@, chunk)]
          [] entry.action = "ArgumentEscaped" ->
               [p EXCEPT !.t_arguments[n] = Append(@, entry.byte)]
          [] entry.action = "Error" -> error_at(p, "Invalid character", position)
          [] OTHER -> p

\* Parser::apply, the first match: the effect of the action on the parser.
apply_action(p, entry, chunk, position) ==
    LET n == Len(p.t_arguments)
    IN  CASE entry.action = "SetType" -> [p EXCEPT !.mtype = entry.mtype]
          [] entry.action = "Name" -> [p EXCEPT !.t_name = extend_cow(@, chunk)]
          [] entry.action = "Id" -> apply_id(p, chunk, position)
          [] entry.action = "Argument" ->
               [p EXCEPT !.t_arguments[n] = extend_cow(@, chunk)]
          [] entry.action = "ArgumentEscaped" ->
               [p EXCEPT !.t_arguments[n] = Append(@, entry.byte)]
          [] entry.action = "ResetLineLength" -> [p EXCEPT !.line_length = 0]
          [] entry.action = "Error" -> error_at(p, "Invalid character", position)
          [] OTHER -> p

\* Message::new (src/src/message.rs): the assertion on mid.
message_new_panics(m) == m.some /\ ~(m.value > 0)

\* A faulty second match, which resets at the end of a line in error but returns
\* no item for it.
apply_terminal_mute(p) ==
    CASE p.state = "EndOfLine" ->
           [p |-> reset_transient(p),
            result |-> OkItem(p.mtype, p.t_name, p.mid, p.arguments \o p.t_arguments)]
      [] p.state = "ErrorEndOfLine" -> [p |-> reset_transient(p), result |-> Item("None")]
      [] OTHER -> [p |-> p, result |-> Item("None")]

\* A faulty second match, which yields the message or the error of the line but
\* resets only the Transient and the state's type and error, not the parser.
apply_terminal_no_reset(p) ==
    CASE p.state = "EndOfLine" ->
           [p |-> [p EXCEPT !.mtype = "None", !.t_name = <<>>, !.t_arguments = <<>>],
            result |-> OkItem(p.mtype, p.t_name, p.mid, p.arguments \o p.t_arguments)]
      [] p.state = "ErrorEndOfLine" ->
           [p |-> [p EXCEPT !.error = NoneError, !.t_name = <<>>, !.t_arguments = <<>>],
            result |-> ErrItem(p.error)]
      [] OTHER -> [p |-> p, result |-> Item("None")]

\* Parser::apply, the second match: what a terminal state yields.
apply_terminal(p) ==
    CASE p.state = "EndOfLine" ->
           IF p.mtype = "None" \/ message_new_panics(p.mid)
           THEN [p |-> p, result |-> Item("Panic")]
           ELSE [p |-> reset_transient(p),
                 result |-> OkItem(p.mtype, p.t_name, p.mid, p.arguments \o p.t_arguments)]
      [] p.state = "ErrorEndOfLine" ->
           IF ~p.error.some
           THEN [p |-> p, result |-> Item("Panic")]
           ELSE [p |-> reset_transient(p), result |-> ErrItem(p.error)]
      [] OTHER -> [p |-> p, result |-> Item("None")]

\* Parser::apply
apply(p, entry, chunk, position) ==
    IF action_panics(p, entry)
    THEN [p |-> p, result |-> Item("Panic")]
    ELSE apply_terminal(apply_action(p, entry, chunk, position))

Min(a, b) == IF a <= b THEN a ELSE b

\* A faulty max_len, without the cap at the limit: a run carries line_length
\* beyond max_line_length.
max_len_uncapped(p) == Len(p.data)

\* Parser::next_message: the cap on the run consumed in one round.
max_len(p) ==
    IF p.line_length >= p.max_line_length
    THEN Len(p.data)
    ELSE Min(Len(p.data), p.max_line_length - p.line_length)

\* Parser::next_message: `while p < max_len && fast_table[data[p]] { p += 1 }`.
RECURSIVE run_length(_, _, _, _)
run_length(d, n, cap, bits) ==
    IF n < cap /\ d[n + 1] \in bits THEN run_length(d, n + 1, cap, bits) ELSE n

\* Parser::next_message: the number of bytes consumed this round.
round_length(p, fast) ==
    IF fast.some THEN run_length(p.data, 1, max_len(p), fast.bits) ELSE 1

\* A faulty line-too-long check, which compares with > where the code has >=.
check_line_length_strict(p) ==
    IF p.line_length > p.max_line_length /\ p.state # "Error"
    THEN error_here(p, "Line too long")
    ELSE p

\* Parser::next_message: the line-too-long check that opens every round.
check_line_length(p) ==
    IF p.line_length >= p.max_line_length /\ p.state # "Error"
    THEN error_here(p, "Line too long")
    ELSE p

\* A faulty count, which goes on counting beyond the limit.
advance_line_length_always(p, n) == [p EXCEPT !.line_length = @ + n]

\* Parser::next_message: line_length after a round of n bytes.
advance_line_length(p, n) ==
    IF p.line_length < p.max_line_length
    THEN [p EXCEPT !.line_length = @ + n]
    ELSE p

\* A faulty step, which drops one byte more than the round has consumed.
advance_data_skips(r, n) ==
    [p |-> [r.p EXCEPT !.data = SubSeq(@, n + 2, Len(@))], result |-> r.result]

\* Parser::next_message: the bytes of the round leave `data`.
advance_data(r, n) ==
    [p |-> [r.p EXCEPT !.data = SubSeq(@, n + 1, Len(@))], result |-> r.result]

\* Parser::next_message: a round of n bytes is accounted for and applied;
\* `position` is line_length + 1 as it was before the n bytes were added.
consume(p, entry, n) ==
    advance_data(apply(advance_line_length(p, n), entry, SubSeq(p.data, 1, n),
                       p.line_length + 1),
                 n)

\* Parser::next_message: create_argument and the change of state open the round.
enter(p, entry) ==
    [p EXCEPT !.t_arguments = IF entry.create_argument THEN Append(@, <<>>) ELSE @,
              !.state = entry.state]

\* Parser::next_message: the round for the entry of the table found for data[0].
transition(p, entry, fast) ==
    consume(enter(p, entry), entry, round_length(enter(p, entry), fast))

\* Parser::next_message: the lookup of self.table[self.state][data[0]].
lookup(p) ==
    transition(p, PARSER_TABLE[p.state][Head(p.data)], FAST_TABLE[p.state][Head(p.data)])

\* A faulty round, which does not look at the length of the line before it
\* dispatches.
dispatch_unchecked(p) == lookup(p)

\* Parser::next_message: one round of the while loop (data is not empty).
dispatch(p) == lookup(check_line_length(p))

\* Parser::next_message: the value of `p` at the end of the round that p's data
\* opens, the number of bytes the round consumes.
round_p(p) ==
    round_length(enter(check_line_length(p),
                       PARSER_TABLE[check_line_length(p).state][Head(p.data)]),
                 FAST_TABLE[check_line_length(p).state][Head(p.data)])

\* Parser::next_message: what is left in the Transient goes back to the parser.
return_leftover(p) ==
    [p EXCEPT !.name = p.t_name, !.t_name = <<>>,
              !.arguments = @ \o p.t_arguments, !.t_arguments = <<>>]

RECURSIVE next_message(_)

\* Parser::next_message: `if let Some(result) = self.apply(..) { return Some(result) }`
after_round(r) == IF r.result.kind = "None" THEN next_message(r.p) ELSE r

\* Parser::next_message
next_message(p) ==
    IF p.data = <<>>
    THEN [p |-> return_leftover(p), result |-> Item("None")]
    ELSE after_round(dispatch(p))

\* Entry.fast_table of an entry that has none.
NoFastTable == [some |-> FALSE, bits |-> {}]

\* Parser::next_message for a table without fast tables: every round is the
\* round of one byte, dispatched through TABLE[state][byte].
lookup_slow(p) == transition(p, PARSER_TABLE[p.state][Head(p.data)], NoFastTable)

RECURSIVE next_message_slow(_)

after_round_slow(r) == IF r.result.kind = "None" THEN next_message_slow(r.p) ELSE r

next_message_slow(p) ==
    IF p.data = <<>>
    THEN [p |-> return_leftover(p), result |-> Item("None")]
    ELSE after_round_slow(lookup_slow(check_line_length(p)))

\* A faulty append, which hands the name to the Transient but leaves the last
\* argument with the parser.
append_keeps_last_argument(p, d) ==
    [p EXCEPT !.data = d, !.t_name = p.name, !.name = <<>>, !.t_arguments = <<>>]

\* Parser::append: the Transient takes the name and the last argument.
append(p, d) ==
    [p EXCEPT !.data = d,
              !.t_name = p.name,
              !.name = <<>>,
              !.t_arguments =
                  IF p.arguments = <<>> THEN <<>>
                  ELSE <<p.arguments[Len(p.arguments)]>>,
              !.arguments =
                  IF p.arguments = <<>> THEN <<>>
                  ELSE SubSeq(p.arguments, 1, Len(p.arguments) - 1)]

\* Dropping a ParseIterator: its data and its Transient are gone.
drop(p) == [p EXCEPT !.data = <<>>, !.t_name = <<>>, !.t_arguments = <<>>]

(***************************************************************************)
(* The formatter (src/src/format.rs) and its escape tables (src/build.rs). *)
(***************************************************************************)
\* usize::MAX, for a usize of 16 bits, the narrowest there is.
USIZE_MAX == 65535

\* A faulty escape, which leaves the space as it is.
escape_space_plain(c) ==
    CASE c = CR -> LOWER_R
      [] c = LF -> LOWER_N
      [] c = TAB -> LOWER_T
      [] c = ESC -> LOWER_E
      [] c = NUL -> ZERO
      [] c = BACKSLASH -> BACKSLASH
      [] OTHER -> 0

\* escape (build.rs): the symbol that follows the backslash, 0 for a byte that
\* needs no escape.
escape(c) ==
    CASE c = CR -> LOWER_R
      [] c = LF -> LOWER_N
      [] c = TAB -> LOWER_T
      [] c = ESC -> LOWER_E
      [] c = NUL -> ZERO
      [] c = BACKSLASH -> BACKSLASH
      [] c = SP -> UNDERSCORE
      [] OTHER -> 0

\* write_format_tables (build.rs): the two generated tables.
ESCAPE_SYMBOL == [c \in Byte |-> escape(c)] @@ <<>>
ESCAPE_FLAG == [c \in Byte |-> escape(c) # 0] @@ <<>>

\* Message::type_symbol
type_symbol(mt) ==
    CASE mt = "Request" -> QMARK
      [] mt = "Reply" -> BANG
      [] mt = "Inform" -> HASH

\* itoa::Buffer::format: the decimal digits of n, most significant first.
RECURSIVE format_decimal(_)
format_decimal(n) ==
    IF n < 10 THEN <<ZERO + n>>
    ELSE format_decimal(n \div 10) \o <<ZERO + (n % 10)>>

\* A cell of a buffer that nothing has been written to.
Uninit == BYTE_MAX + 1

\* A buffer of n cells, none written: Vec::with_capacity(n), or the caller's.
uninit(n) == [i \in 1..n |-> Uninit]

\* Out<[u8]>: the part of the buffer still to write, `rest`; `written` is what
\* lies before it, and `ok` is false once a write has panicked.
as_out(cells) == [ok |-> TRUE, written |-> <<>>, rest |-> cells]

\* Message::append_bytes: split_at_out panics when values is longer than target.
append_bytes(target, values) ==
    IF target.ok /\ Len(values) <= Len(target.rest)
    THEN [ok |-> TRUE,
          written |-> target.written \o values,
          rest |-> SubSeq(target.rest, Len(values) + 1, Len(target.rest))]
    ELSE [target EXCEPT !.ok = FALSE]

\* Message::append_byte
append_byte(target, value) == append_bytes(target, <<value>>)

\* A faulty body of the inner loop, which writes every byte as it is.
write_escaped_raw(target, c) == append_byte(target, c)

\* Message::write_out, the inner loop's body: one byte of an argument.
write_escaped(target, c) ==
    IF ESCAPE_SYMBOL[c] = 0
    THEN append_byte(target, c)
    ELSE append_byte(append_byte(target, BACKSLASH), ESCAPE_SYMBOL[c])

\* Message::write_out, the inner loop over the bytes of an argument (left once a
\* panic unwinds).
RECURSIVE write_bytes(_, _)
write_bytes(target, argument) ==
    IF argument = <<>> \/ ~target.ok THEN target
    ELSE write_bytes(write_escaped(target, Head(argument)), Tail(argument))

\* A faulty body of the loop over the arguments, which writes nothing for an
\* empty argument.
write_argument_no_empty(target, argument) ==
    write_bytes(append_byte(target, SP), argument)

\* Message::write_out, the body of the loop over the arguments.
write_argument(target, argument) ==
    write_bytes(IF argument = <<>>
                THEN append_bytes(append_byte(target, SP), <<BACKSLASH, AT>>)
                ELSE append_byte(target, SP),
                argument)

\* Message::write_out, the loop over the arguments (left once a panic unwinds).
RECURSIVE write_arguments(_, _)
write_arguments(target, args) ==
    IF args = <<>> \/ ~target.ok THEN target
    ELSE write_arguments(write_argument(target, Head(args)), Tail(args))

\* Message::write_out, `if let Some(mid) = self.mid`.
write_mid(target, m) ==
    IF m.some
    THEN append_byte(append_bytes(append_byte(target, LBRACKET),
                                  format_decimal(m.value)),
                     RBRACKET)
    ELSE target

\* Message::write_out: the target after the message is written to it; its `rest`
\* is the unused part of the buffer, which write_out returns.
write_out(m, target) ==
    append_byte(
        write_arguments(
            write_mid(append_bytes(append_byte(target, type_symbol(m.mtype)), m.name),
                      m.mid),
            m.arguments),
        LF)

\* struct Accumulator; `ok` is false once an addition has panicked.
Accumulator(v) == [ok |-> TRUE, value |-> v]

\* A faulty add_assign, which wraps around.
add_assign_wrapping(acc, rhs) == Accumulator((acc.value + rhs) % (USIZE_MAX + 1))

\* Accumulator::add_assign: checked_add(rhs).expect(..).
add_assign(acc, rhs) ==
    IF acc.ok /\ rhs <= USIZE_MAX - acc.value
    THEN Accumulator(acc.value + rhs)
    ELSE [ok |-> FALSE, value |-> 0]

\* Message::write_size, the closure `|&&c| ESCAPE_FLAG[c]`.
escape_flagged(c) == ESCAPE_FLAG[c]

\* Message::write_size, the body of the loop over the arguments.
size_argument(acc, argument) ==
    IF argument = <<>>
    THEN add_assign(acc, 2)
    ELSE add_assign(add_assign(acc, Len(argument)),
                    Len(SelectSeq(argument, escape_flagged)))

\* Message::write_size, the loop over the arguments (left once a panic unwinds).
RECURSIVE size_arguments(_, _)
size_arguments(acc, args) ==
    IF args = <<>> \/ ~acc.ok THEN acc
    ELSE size_arguments(size_argument(acc, Head(args)), Tail(args))

\* Message::write_size, `if let Some(mid) = self.mid`.
size_mid(acc, m) ==
    IF m.some /\ acc.ok THEN add_assign(acc, 2 + Len(format_decimal(m.value))) ELSE acc

\* A faulty write_size, which does not count the spaces before the arguments.
write_size_no_spaces(m) ==
    size_arguments(size_mid(add_assign(Accumulator(2), Len(m.name)), m.mid),
                   m.arguments)

\* Message::write_size: the accumulator it returns the value of, or panics with.
write_size(m) ==
    size_arguments(
        size_mid(add_assign(add_assign(Accumulator(2), Len(m.name)), Len(m.arguments)),
                 m.mid),
        m.arguments)

\* Message::to_vec, given the size: write_out into a buffer of that many cells.
to_vec_sized(m, size) ==
    IF size.ok THEN write_out(m, as_out(uninit(size.value))) ELSE as_out(<<>>)

\* A faulty to_vec, without the check of what write_out has left: set_len(size)
\* makes the whole buffer the vector, written or not.
to_vec_remain_unchecked(size, remain) ==
    IF size.ok /\ remain.ok
    THEN [ok |-> TRUE, bytes |-> remain.written \o remain.rest]
    ELSE [ok |-> FALSE, bytes |-> <<>>]

\* Message::to_vec, given the size and what write_out has left: the vector,
\* unless write_size or write_out panicked or a part of the buffer is unwritten.
to_vec_remain(size, remain) ==
    IF size.ok /\ remain.ok /\ remain.rest = <<>>
    THEN [ok |-> TRUE, bytes |-> remain.written]
    ELSE [ok |-> FALSE, bytes |-> <<>>]

\* Message::to_vec on a message whose name and arguments are `first` when
\* write_size calls as_ref() and `second` when write_out does.
to_vec_views(first, second) ==
    to_vec_remain(write_size(first), to_vec_sized(second, write_size(first)))

\* Message::to_vec
to_vec(m) == to_vec_remain(write_size(m), to_vec_sized(m, write_size(m)))

(***************************************************************************)
(* The caller: streams of bytes handed to append in chunks of any size.    *)
(***************************************************************************)
\* max_line_length ranges over 0..MaxLimit and over FIXTURE_LIMIT.
MaxLimit == 4
\* Every stream over ShortAlphabet of at most MaxShort bytes is an input.
MaxShort == 3
\* Parser::new(1000) of the test fixture
FIXTURE_LIMIT == 1000

LineLimits == (0..MaxLimit) \cup {FIXTURE_LIMIT}

ShortAlphabet == {QMARK, LOWER_A, SP, LF, BACKSLASH}

RECURSIVE SeqsUpTo(_, _)
SeqsUpTo(S, n) ==
    IF n = 0 THEN {<<>>}
    ELSE LET shorter == SeqsUpTo(S, n - 1)
         IN  shorter \cup {Append(s, b) : s \in {t \in shorter : Len(t) = n - 1}, b \in S}

ShortStreams == SeqsUpTo(ShortAlphabet, MaxShort)

\* Lines of the parser's tests (parse.rs, mod test) and lines like them, cut
\* down to the bytes that matter: each kind of separator, end of line and escape,
\* each way a line can be wrong, alone or followed by a good line.
Scenarios ==
    {
     \* `?t s\n`
     <<QMARK, 116, SP, 115, LF>>,
     \* `!a\t\tb\t\r`
     <<BANG, 97, TAB, TAB, 98, TAB, CR>>,
     \* `#e \@ \t\r\n`
     <<HASH, 101, SP, BACKSLASH, AT, SP, BACKSLASH, 116, BACKSLASH, 114, LF>>,
     \* `!e \n\e\\\_\0\n`
     <<BANG, 101, SP, BACKSLASH, 110, BACKSLASH, 101, BACKSLASH, BACKSLASH, BACKSLASH, UNDERSCORE, BACKSLASH, 48, LF>>,
     \* `?m[12] x\n`
     <<QMARK, 109, LBRACKET, 49, 50, RBRACKET, SP, 120, LF>>,
     \* ` \t\n\r?b\n\n`
     <<SP, TAB, LF, CR, QMARK, 98, LF, LF>>,
     \* `?A-9z \n`
     <<QMARK, 65, DASH, 57, 122, SP, LF>>,
     \* `#Z[9]\tq\r`
     <<HASH, 90, LBRACKET, 57, RBRACKET, TAB, 113, CR>>,
     \* ` ?l\n?b\n`
     <<SP, QMARK, 108, LF, QMARK, 98, LF>>,
     \* `n\n?b\n`
     <<110, LF, QMARK, 98, LF>>,
     \* `?0\n?b\n`
     <<QMARK, 48, LF, QMARK, 98, LF>>,
     \* `?A_\n?b\n`
     <<QMARK, 65, UNDERSCORE, LF, QMARK, 98, LF>>,
     \* `?a[0]\n?b\n`
     <<QMARK, 97, LBRACKET, 48, RBRACKET, LF, QMARK, 98, LF>>,
     \* `?a[1\n?b\n`
     <<QMARK, 97, LBRACKET, 49, LF, QMARK, 98, LF>>,
     \* `?a[]\n`
     <<QMARK, 97, LBRACKET, RBRACKET, LF>>,
     \* `?a[01]\n`
     <<QMARK, 97, LBRACKET, 48, 49, RBRACKET, LF>>,
     \* `?a \x00\n?b\n`
     <<QMARK, 97, SP, NUL, LF, QMARK, 98, LF>>,
     \* `?a \x1B\n?b\n`
     <<QMARK, 97, SP, ESC, LF, QMARK, 98, LF>>,
     \* `?a \\n?b\n`
     <<QMARK, 97, SP, BACKSLASH, LF, QMARK, 98, LF>>,
     \* `?a \z\n?b\n`
     <<QMARK, 97, SP, BACKSLASH, 122, LF, QMARK, 98, LF>>,
     \* `?a \@x\n`
     <<QMARK, 97, SP, BACKSLASH, AT, 120, LF>>,
     \* `?a x\@\n`
     <<QMARK, 97, SP, 120, BACKSLASH, AT, LF>>,
     \* `?h12\n?h1\n`
     <<QMARK, 104, 49, 50, LF, QMARK, 104, 49, LF>>,
     \* `?a b\n!c\n`
     <<QMARK, 97, SP, 98, LF, BANG, 99, LF>>,
     \* `?a\n \n!b\r#c`
     <<QMARK, 97, LF, SP, LF, BANG, 98, CR, HASH, 99>>,
     \* `?a[2147483647]\n`
     <<QMARK, 97, LBRACKET, 50, 49, 52, 55, 52, 56, 51, 54, 52, 55, RBRACKET, LF>>,
     \* `?a[2147483648]\n?b\n`
     <<QMARK, 97, LBRACKET, 50, 49, 52, 55, 52, 56, 51, 54, 52, 56, RBRACKET, LF, QMARK, 98, LF>>,
     \* `?a[21474836470\n`
     <<QMARK, 97, LBRACKET, 50, 49, 52, 55, 52, 56, 51, 54, 52, 55, 48, LF>>,
     \* `?d[7] \t\n`
     <<QMARK, 100, LBRACKET, 55, RBRACKET, SP, TAB, LF>>,
     \* `?a[30000000001]\n`
     <<QMARK, 97, LBRACKET, 51, 48, 48, 48, 48, 48, 48, 48, 48, 48, 49, RBRACKET, LF>>
    }

Streams == ShortStreams \cup Scenarios

\* No call of write_size() or of write_out() yet.
NoSize == [kind |-> "NoCall", value |-> 0]
NoRemain == [kind |-> "NoCall", written |-> <<>>, rest |-> <<>>]
NoVec == [kind |-> "NoCall", bytes |-> <<>>]

\* What a reader of the table finds at TABLE[s][ch]: the entry and its fast_table.
Found(s, ch) ==
    [state |-> s, byte |-> ch, entry |-> PARSER_TABLE[s][ch],
     fast_table |-> FAST_TABLE[s][ch]]

\* Nothing looked up yet (the entry is a placeholder).
NoLookup ==
    [state |-> "None", byte |-> 0, entry |-> error_entry,
     fast_table |-> [some |-> FALSE, bits |-> {}]]

\* No call of the formatter yet, and a message whose as_ref() always gives the
\* same bytes.
FormatterIdle ==
    /\ returned_size = NoSize
    /\ buffer = <<>>
    /\ returned_out = NoRemain
    /\ second_view = message
    /\ returned_vec = NoVec

TypeOK ==
    /\ state \in State
    /\ line_length \in Nat
    /\ max_line_length \in LineLimits
    /\ mtype \in MessageType \cup {"None"}
    /\ iter \in {"none", "live"}
    /\ returned_none \in BOOLEAN
    /\ panicked \in BOOLEAN
    /\ fully_iterated \in BOOLEAN
    /\ trusted \in BOOLEAN
    /\ trusted => fully_iterated

\* Parser::new(max_line_length), and a caller about to send `input`.
Init ==
    /\ max_line_length \in LineLimits
    /\ input \in Streams
    /\ state = "Start"
    /\ line_length = 0
    /\ mtype = "None"
    /\ name = <<>>
    /\ mid = NoneMid
    /\ arguments = <<>>
    /\ error = NoneError
    /\ iter = "none"
    /\ data = <<>>
    /\ transient = EmptyTransient
    /\ returned_none = FALSE
    /\ result = Item("NoCall")
    /\ panicked = FALSE
    /\ consumed = <<>>
    /\ outcomes = <<>>
    /\ fully_iterated = TRUE
    /\ trusted = TRUE
    /\ slow = new_parser(max_line_length)
    /\ slow_result = Item("NoCall")
    /\ looked_up = NoLookup
    /\ message = NoMessage
    /\ FormatterIdle

\* The parser's and the iterator's fields take the values of p.
Store(p) ==
    /\ state' = p.state
    /\ line_length' = p.line_length
    /\ max_line_length' = p.max_line_length
    /\ mtype' = p.mtype
    /\ name' = p.name
    /\ mid' = p.mid
    /\ arguments' = p.arguments
    /\ error' = p.error
    /\ data' = p.data
    /\ transient' = [name |-> p.t_name, arguments |-> p.t_arguments]

\* parser.append(&input[..k]): the iterator is created; nothing is consumed yet.
AppendBytes(k) ==
    /\ iter = "none" /\ ~panicked
    /\ Store(append(Cur, SubSeq(input, 1, k)))
    /\ slow' = append(slow, SubSeq(input, 1, k))
    /\ slow_result' = Item("NoCall")
    /\ input' = SubSeq(input, k + 1, Len(input))
    /\ iter' = "live"
    /\ returned_none' = FALSE
    /\ result' = Item("NoCall")
    /\ UNCHANGED <<panicked, consumed, outcomes, fully_iterated, trusted, message>>
    /\ UNCHANGED <<formatter, looked_up>>

\* The caller appends the next bytes of the stream, as many as it likes.
AppendChunk == \E k \in 0..Len(input) : AppendBytes(k)

\* ParseIterator::next has returned r.result and left the parser as r.p.
Returned(r, stillTrusted) ==
    /\ Store(r.p)
    /\ result' = r.result
    /\ slow' = next_message_slow(slow).p
    /\ slow_result' = next_message_slow(slow).result
    /\ panicked' = (r.result.kind = "Panic")
    /\ returned_none' = (returned_none \/ r.result.kind = "None")
    /\ trusted' = stillTrusted
    /\ consumed' = IF fully_iterated
                   THEN consumed \o SubSeq(data, 1, Len(data) - Len(r.p.data))
                   ELSE <<>>
    /\ outcomes' = IF ~fully_iterated THEN <<>>
                   ELSE IF r.result.kind \in {"Ok", "Err"}
                        THEN Append(outcomes, r.result)
                        ELSE outcomes
    /\ UNCHANGED <<iter, input, fully_iterated, message>>
    /\ UNCHANGED <<formatter, looked_up>>

\* ParseIterator::next
NextCall(stillTrusted) == Returned(next_message(Cur), stillTrusted)

\* next() on an iterator that has not returned None yet
Next1 ==
    /\ iter = "live" /\ ~panicked /\ ~returned_none
    /\ NextCall(trusted)

\* next() again on an iterator that has already returned None
NextAfterNone ==
    /\ iter = "live" /\ ~panicked /\ returned_none
    /\ NextCall(FALSE)

\* The iterator is dropped after it returned None.
DropExhausted ==
    /\ iter = "live" /\ ~panicked /\ returned_none
    /\ Store(drop(Cur))
    /\ slow' = drop(slow)
    /\ slow_result' = Item("NoCall")
    /\ iter' = "none"
    /\ returned_none' = FALSE
    /\ result' = Item("NoCall")
    /\ UNCHANGED <<panicked, input, consumed, outcomes, fully_iterated, trusted, message>>
    /\ UNCHANGED <<formatter, looked_up>>

\* The iterator is dropped before it returned None.  The bytes it had not parsed
\* are still the caller's, who sends them again.
DropEarly ==
    /\ iter = "live" /\ ~panicked /\ ~returned_none
    /\ Store(drop(Cur))
    /\ slow' = drop(slow)
    /\ slow_result' = Item("NoCall")
    /\ input' = data \o input
    /\ iter' = "none"
    /\ result' = Item("NoCall")
    /\ fully_iterated' = FALSE
    /\ trusted' = FALSE
    /\ consumed' = <<>>
    /\ outcomes' = <<>>
    /\ UNCHANGED <<returned_none, panicked, message>>
    /\ UNCHANGED <<formatter, looked_up>>

\* parser.reset()
Reset ==
    /\ iter = "none" /\ ~panicked
    /\ Store(reset(Cur))
    /\ slow' = reset(slow)
    /\ slow_result' = Item("NoCall")
    /\ result' = Item("NoCall")
    /\ fully_iterated' = TRUE
    /\ trusted' = TRUE
    /\ consumed' = <<>>
    /\ outcomes' = <<>>
    /\ UNCHANGED <<iter, returned_none, panicked, input, message>>
    /\ UNCHANGED <<formatter, looked_up>>

Next ==
    \/ AppendChunk
    \/ Next1
    \/ NextAfterNone
    \/ DropExhausted
    \/ DropEarly
    \/ Reset

Spec == Init /\ [][Next]_vars

(***************************************************************************)
(* The parser of src/src/lib.rs: one struct Parser, without a Transient.   *)
(* Its fields are the variables of the parser above (message_type is       *)
(* mtype, id is mid); the Transient stays empty.                           *)
(***************************************************************************)
\* Entry::error of lib.rs
lib_entry_error == new("Nothing", "Error")

\* The table Parser::new of lib.rs builds, before the fast tables.  make_table
\* and the closures make_start .. make_argument_escape are those of parse.rs
\* byte for byte; what differs is Entry::error(), which every `_ =>` arm and
\* make_table_default give: there it is (Nothing, Error).
lib_table_entry(s, ch) ==
    IF make_table(s, ch).action = "Error"
    THEN [make_table(s, ch) EXCEPT !.action = lib_entry_error.action]
    ELSE make_table(s, ch)

LIB_TABLE ==
    [s \in State |-> ([ch \in Byte |-> lib_table_entry(s, ch)] @@ <<>>)] @@ <<>>

\* build_fast_tables of lib.rs: the bitmap for key (st, discriminant).
lib_fast_bits(st, kind) ==
    {ch2 \in Byte :
        /\ LIB_TABLE[st][ch2].state = st
        /\ LIB_TABLE[st][ch2].action = kind
        /\ ~LIB_TABLE[st][ch2].create_argument}

\* build_fast_tables of lib.rs: Entry.fast_table of table[src_state][ch];
\* Action::is_mergeable there is Nothing | Name | Id | Argument.
lib_fast_table(src_state, ch) ==
    LET entry == LIB_TABLE[src_state][ch]
        bits == lib_fast_bits(entry.state, entry.action)
    IN  IF is_terminal(src_state) \/ is_terminal(entry.state)
           \/ entry.action \notin {"Nothing", "Name", "Id", "Argument"}
           \/ bits = {}
        THEN [some |-> FALSE, bits |-> {}]
        ELSE [some |-> TRUE, bits |-> bits]

LIB_FAST_TABLE ==
    [s \in State |-> ([ch \in Byte |-> lib_fast_table(s, ch)] @@ <<>>)] @@ <<>>

\* Parser::error of lib.rs
lib_error(p, msg) ==
    [p EXCEPT !.state = "Error",
              !.arguments = <<>>,
              !.error = ParseError(msg, p.line_length + 1)]

\* Parser::reset of lib.rs
lib_reset(p) ==
    [p EXCEPT !.state = "Start", !.line_length = 0, !.mtype = "None",
              !.name = <<>>, !.mid = NoneMid, !.arguments = <<>>,
              !.error = NoneError]

\* Parser::apply of lib.rs, Action::Id: the loop over the digits of the chunk.
RECURSIVE lib_apply_id(_, _)
lib_apply_id(p, chunk) ==
    IF chunk = <<>> THEN p
    ELSE LET m == IF p.mid.some THEN p.mid.value ELSE 0
             d == Head(chunk) - ZERO
         IN  IF fits_i32(m, d)
             THEN lib_apply_id([p EXCEPT !.mid = SomeMid(m * 10 + d)], Tail(chunk))
             ELSE lib_error(p, "Message ID overflowed")

\* Parser::apply of lib.rs, the first match.
lib_apply_action(p, entry, chunk) ==
    LET n == Len(p.arguments)
    IN  CASE entry.action = "SetType" -> [p EXCEPT !.mtype = entry.mtype]
          [] entry.action = "Name" -> [p EXCEPT !.name = @ \o chunk]
          [] entry.action = "Id" -> lib_apply_id(p, chunk)
          [] entry.action = "Argument" -> [p EXCEPT !.arguments[n] = @ \o chunk]
          [] entry.action = "ArgumentEscaped" ->
               [p EXCEPT !.arguments[n] = Append(@, entry.byte)]
          [] entry.action = "ResetLineLength" -> [p EXCEPT !.line_length = 0]
          [] OTHER -> p

\* Parser::apply of lib.rs, the second match: what a terminal state yields; the
\* call unwinds when take() gives None to unwrap().
lib_apply_terminal(p) ==
    CASE p.state = "EndOfLine" ->
           IF p.mtype = "None" \/ message_new_panics(p.mid)
           THEN [p |-> p, result |-> Item("Panic")]
           ELSE [p |-> lib_reset(p),
                 result |-> OkItem(p.mtype, p.name, p.mid, p.arguments)]
      [] p.state = "ErrorEndOfLine" ->
           IF ~p.error.some
           THEN [p |-> p, result |-> Item("Panic")]
           ELSE [p |-> lib_reset(p), result |-> ErrItem(p.error)]
      [] OTHER -> [p |-> p, result |-> Item("None")]

\* Parser::apply of lib.rs
lib_apply(p, entry, chunk) ==
    IF entry.action \in {"Argument", "ArgumentEscaped"} /\ p.arguments = <<>>
    THEN [p |-> p, result |-> Item("Panic")]
    ELSE lib_apply_terminal(lib_apply_action(p, entry, chunk))

\* Parser::next_message of lib.rs: the line-too-long check of a round.
lib_check_line_length(p) ==
    IF p.line_length >= p.max_line_length /\ p.state # "Error"
    THEN lib_error(p, "Line too long")
    ELSE p

\* Parser::next_message of lib.rs: create_argument and the change of state.
lib_enter(p, entry) ==
    [p EXCEPT !.arguments = IF entry.create_argument THEN Append(@, <<>>) ELSE @,
              !.state = entry.state]

\* Parser::next_message of lib.rs: the round for an entry and its fast table
\* (`p` is computed and line_length advanced as in parse.rs).
lib_transition(p, entry, fast) ==
    advance_data(
        lib_apply(advance_line_length(lib_enter(p, entry),
                                      round_length(lib_enter(p, entry), fast)),
                  entry,
                  SubSeq(p.data, 1, round_length(lib_enter(p, entry), fast))),
        round_length(lib_enter(p, entry), fast))

\* Parser::next_message of lib.rs: one round of the while loop.
lib_dispatch(p) ==
    lib_transition(lib_check_line_length(p),
                   LIB_TABLE[lib_check_line_length(p).state][Head(p.data)],
                   LIB_FAST_TABLE[lib_check_line_length(p).state][Head(p.data)])

\* Parser::next_message of lib.rs
RECURSIVE lib_next_message(_)
lib_next_message(p) ==
    IF p.data = <<>>
    THEN [p |-> p, result |-> Item("None")]
    ELSE IF lib_dispatch(p).result.kind = "None"
         THEN lib_next_message(lib_dispatch(p).p)
         ELSE lib_dispatch(p)

\* Parser::append of lib.rs: the iterator borrows the parser and the data.
lib_append(p, d) == [p EXCEPT !.data = d]

\* Parser::new(max_line_length) of lib.rs, and a caller about to send `input`.
InitLib == Init

\* parser.append(&input[..k]): the caller appends the next bytes of the stream,
\* as many as it likes.
LibAppend ==
    /\ iter = "none" /\ ~panicked
    /\ \E k \in 0..Len(input) :
          /\ Store(lib_append(Cur, SubSeq(input, 1, k)))
          /\ input' = SubSeq(input, k + 1, Len(input))
    /\ iter' = "live"
    /\ returned_none' = FALSE
    /\ result' = Item("NoCall")
    /\ UNCHANGED <<panicked, consumed, outcomes, fully_iterated, trusted, message,
                   slow, slow_result>>
    /\ UNCHANGED <<formatter, looked_up>>

\* ParseIterator::next of lib.rs
LibNext ==
    /\ iter = "live" /\ ~panicked
    /\ Store(lib_next_message(Cur).p)
    /\ result' = lib_next_message(Cur).result
    /\ panicked' = (result'.kind = "Panic")
    /\ returned_none' = (returned_none \/ result'.kind = "None")
    /\ consumed' = consumed \o SubSeq(data, 1, Len(data) - Len(data'))
    /\ outcomes' = IF result'.kind \in {"Ok", "Err"}
                   THEN Append(outcomes, result')
                   ELSE outcomes
    /\ UNCHANGED <<iter, input, fully_iterated, trusted, message, slow, slow_result>>
    /\ UNCHANGED <<formatter, looked_up>>

\* The iterator is dropped after it returned None.
LibDrop ==
    /\ iter = "live" /\ ~panicked /\ returned_none
    /\ Store([Cur EXCEPT !.data = <<>>])
    /\ iter' = "none"
    /\ returned_none' = FALSE
    /\ result' = Item("NoCall")
    /\ UNCHANGED <<panicked, input, consumed, outcomes, fully_iterated, trusted,
                   message, slow, slow_result>>
    /\ UNCHANGED <<formatter, looked_up>>

NextLib ==
    \/ LibAppend
    \/ LibNext
    \/ LibDrop

SpecLib == InitLib /\ [][NextLib]_vars

(***************************************************************************)
(* The round trip of test.rs: a message is formatted, and its bytes are    *)
(* appended in one call to a parser just constructed.                      *)
(***************************************************************************)
\* Parser::new(1000000000) of round_trip
ROUND_TRIP_LIMIT == 1000000000
\* A message has at most MaxArgs arguments.
MaxArgs == 2

\* name_strategy, mid_strategy, arguments_strategy: a few of their values, the
\* bytes the formatter escapes and the ends of the range of IDs among them.
RTNames == {<<LOWER_A>>, <<UPPER_Z, DASH, NINE>>}
RTMids == {NoneMid, SomeMid(1), SomeMid(I32_MAX)}
RTArgumentBytes == {NUL, ESC, SP, TAB, CR, LF, BACKSLASH, AT, LOWER_N}
RTArgumentValues ==
    {<<>>} \cup {<<b>> : b \in RTArgumentBytes}
    \cup {<<BACKSLASH, AT>>, <<SP, SP>>, <<LOWER_A, NUL, UNDERSCORE>>}
RTArguments == SeqsUpTo(RTArgumentValues, MaxArgs)
Messages ==
    {Message(mt, n, m, args) :
        mt \in MessageType, n \in RTNames, m \in RTMids, args \in RTArguments}

\* Parser::new(1000000000), and a message about to be formatted.
InitRT ==
    /\ message \in Messages
    /\ max_line_length = ROUND_TRIP_LIMIT
    /\ input = <<>>
    /\ state = "Start"
    /\ line_length = 0
    /\ mtype = "None"
    /\ name = <<>>
    /\ mid = NoneMid
    /\ arguments = <<>>
    /\ error = NoneError
    /\ iter = "none"
    /\ data = <<>>
    /\ transient = EmptyTransient
    /\ returned_none = FALSE
    /\ result = Item("NoCall")
    /\ panicked = FALSE
    /\ consumed = <<>>
    /\ outcomes = <<>>
    /\ fully_iterated = TRUE
    /\ trusted = TRUE
    /\ slow = new_parser(max_line_length)
    /\ slow_result = Item("NoCall")
    /\ looked_up = NoLookup
    /\ FormatterIdle

\* let encoded = message.to_vec()
FormatMessage ==
    /\ iter = "none" /\ ~panicked
    /\ input = <<>> /\ consumed = <<>>
    /\ IF to_vec(message).ok
       THEN input' = to_vec(message).bytes /\ UNCHANGED panicked
       ELSE panicked' = TRUE /\ UNCHANGED input
    /\ UNCHANGED <<state, line_length, max_line_length, mtype, name, mid, arguments,
                   error, iter, data, transient, returned_none, result, consumed,
                   outcomes, fully_iterated, trusted, slow, slow_result, message>>
    /\ UNCHANGED <<formatter, looked_up>>

\* parser.append(&encoded)
AppendEncoded == input # <<>> /\ AppendBytes(Len(input))

\* .collect(): next() until None, then the iterator is dropped.
NextRT ==
    \/ FormatMessage
    \/ AppendEncoded
    \/ Next1
    \/ DropExhausted

SpecRT == InitRT /\ [][NextRT]_vars

(***************************************************************************)
(* The formatter's two passes, called on a message by the owner of a       *)
(* buffer: write_size(), and write_out() into a buffer of the caller's.    *)
(***************************************************************************)
\* The caller's buffer has at most MaxSpare cells more than write_size() says.
MaxSpare == 2

\* Messages as Message::new takes them: the name and the ID are not validated.
FmtNames == {<<>>, <<SP, LF>>, <<UPPER_Z, DASH, NINE>>}
FmtMids ==
    {NoneMid}
    \cup {SomeMid(v) : v \in {0, 9, 10, 1000000000}}
FmtArgumentValues ==
    {<<>>, <<BACKSLASH, AT>>,
     <<CR, LF, TAB, ESC, NUL, BACKSLASH, SP>>,
     <<AT, LOWER_N, UNDERSCORE, BYTE_MAX>>}
FmtMessages ==
    {Message(mt, n, m, args) :
        mt \in MessageType, n \in FmtNames, m \in FmtMids,
        args \in SeqsUpTo(FmtArgumentValues, MaxArgs)}

\* A parser that nothing has been appended to (it plays no part here).
ParserIdle ==
    /\ state = "Start"
    /\ line_length = 0
    /\ mtype = "None"
    /\ name = <<>>
    /\ mid = NoneMid
    /\ arguments = <<>>
    /\ error = NoneError
    /\ iter = "none"
    /\ data = <<>>
    /\ transient = EmptyTransient
    /\ returned_none = FALSE
    /\ result = Item("NoCall")
    /\ panicked = FALSE
    /\ input = <<>>
    /\ consumed = <<>>
    /\ outcomes = <<>>
    /\ fully_iterated = TRUE
    /\ trusted = TRUE
    /\ slow = new_parser(max_line_length)
    /\ slow_result = Item("NoCall")
    /\ looked_up = NoLookup

parser_vars ==
    <<state, line_length, max_line_length, mtype, name, mid, arguments, error,
      iter, data, transient, returned_none, result, panicked, input, consumed,
      outcomes, fully_iterated, trusted, slow, slow_result, looked_up>>

\* Message::new(mtype, name, mid, arguments)
InitFmt ==
    /\ message \in FmtMessages
    /\ max_line_length = FIXTURE_LIMIT
    /\ ParserIdle
    /\ FormatterIdle

\* What write_size() returns, or that it panicked.
Sized(acc) == [kind |-> IF acc.ok THEN "Ok" ELSE "Panic", value |-> acc.value]

\* message.write_size()
WriteSize ==
    /\ returned_size' = Sized(write_size(message))
    /\ UNCHANGED <<buffer, returned_out, message, second_view, returned_vec>>
    /\ UNCHANGED parser_vars

\* The lengths of the buffers the caller hands to write_out: none at all, one
\* cell too few, exactly write_size() cells, and up to MaxSpare cells more.
BufferLengths(m) ==
    {n \in 0..(write_size(m).value + MaxSpare) :
        n = 0 \/ n + 1 >= write_size(m).value}

\* What write_out() has written and returned, or that it panicked.
Written(out) ==
    [kind |-> IF out.ok THEN "Ok" ELSE "Panic", written |-> out.written, rest |-> out.rest]

\* message.write_out(buffer), the buffer being n cells that nothing is written to
WriteOutInto(n) ==
    /\ buffer' = uninit(n)
    /\ returned_out' = Written(write_out(message, as_out(uninit(n))))
    /\ UNCHANGED <<returned_size, message, second_view, returned_vec>>
    /\ UNCHANGED parser_vars

WriteOut == \E n \in BufferLengths(message) : WriteOutInto(n)

NextFmt ==
    \/ WriteSize
    \/ WriteOut

SpecFmt == InitFmt /\ [][NextFmt]_vars

(***************************************************************************)
(* write_size() on messages whose size is about usize::MAX.                *)
(***************************************************************************)
\* n bytes b
Fill(b, n) == [i \in 1..n |-> b]

BigNames ==
    {<<>>, <<LOWER_A>>, Fill(LOWER_A, USIZE_MAX - 5), Fill(LOWER_A, USIZE_MAX - 2),
     Fill(LOWER_A, USIZE_MAX - 1)}
BigMids == {NoneMid, SomeMid(7), SomeMid(I32_MAX)}
BigArguments ==
    {<<>>,
     << <<>> >>,
     << <<LOWER_A>> >>,
     << Fill(LOWER_A, USIZE_MAX - 4) >>,
     << Fill(LOWER_A, USIZE_MAX - 3) >>,
     << Fill(SP, (USIZE_MAX - 3) \div 2) >>,
     << Fill(SP, (USIZE_MAX - 5) \div 2), <<>> >>,
     << <<SP>>, Fill(SP, (USIZE_MAX - 3) \div 2) >>}
BigMessages ==
    {Message("Request", n, m, args) :
        n \in BigNames, m \in BigMids, args \in BigArguments}

InitSize ==
    /\ message \in BigMessages
    /\ max_line_length = FIXTURE_LIMIT
    /\ ParserIdle
    /\ FormatterIdle

SpecSize == InitSize /\ [][WriteSize]_vars

(***************************************************************************)
(* The table as parser_table() builds it, read entry by entry.             *)
(***************************************************************************)
InitTable ==
    /\ max_line_length = FIXTURE_LIMIT
    /\ message = NoMessage
    /\ ParserIdle
    /\ FormatterIdle

\* &table[s][ch], by a reader that looks up one entry
LookUp(s, ch) ==
    /\ looked_up = NoLookup
    /\ looked_up' = Found(s, ch)
    /\ UNCHANGED <<state, line_length, max_line_length, mtype, name, mid, arguments,
                   error, iter, data, transient, returned_none, result, panicked,
                   input, consumed, outcomes, fully_iterated, trusted, slow,
                   slow_result, message>>
    /\ UNCHANGED formatter

ReadTable == \E s \in State, ch \in Byte : LookUp(s, ch)

SpecTable == InitTable /\ [][ReadTable]_vars

(***************************************************************************)
(* to_vec() on messages whose name and arguments are of a type whose       *)
(* as_ref() need not give the same bytes at every call (EvilData of the    *)
(* test change_size): write_size sees `message`, write_out `second_view`.  *)
(***************************************************************************)
VecNames == {<<>>, <<LOWER_A>>, <<LOWER_A, DASH, LOWER_Z>>}
VecMids == {NoneMid, SomeMid(10)}
VecArgumentValues == {<<>>, <<SP>>, <<LOWER_A>>, <<LOWER_A, LOWER_N>>}
VecMessages ==
    {Message("Request", n, m, args) :
        n \in VecNames, m \in VecMids, args \in SeqsUpTo(VecArgumentValues, MaxArgs)}

\* The sequences of n values of S.
Tuples(S, n) == {t \in SeqsUpTo(S, n) : Len(t) = n}

\* The type, the ID and the number of arguments are plain fields: they are the
\* same at every call.
SecondViews(m) ==
    {Message(m.mtype, n, m.mid, args) :
        n \in VecNames, args \in Tuples(VecArgumentValues, Len(m.arguments))}

InitVec ==
    /\ message \in VecMessages
    /\ second_view \in SecondViews(message)
    /\ max_line_length = FIXTURE_LIMIT
    /\ ParserIdle
    /\ returned_size = NoSize
    /\ buffer = <<>>
    /\ returned_out = NoRemain
    /\ returned_vec = NoVec

\* What to_vec() returns, or that it panicked.
Vec(v) == [kind |-> IF v.ok THEN "Ok" ELSE "Panic", bytes |-> v.bytes]

\* message.to_vec()
ToVec ==
    /\ returned_vec' = Vec(to_vec_views(message, second_view))
    /\ UNCHANGED <<returned_size, buffer, returned_out, message, second_view>>
    /\ UNCHANGED parser_vars

SpecVec == InitVec /\ [][ToVec]_vars

(***************************************************************************)
(* The stream as the caller sees it: lines, read off the bytes alone.      *)
(***************************************************************************)
IsEol(b) == b = LF \/ b = CR

IsBlank(b) == b = SP \/ b = TAB

\* The index of the first byte of the line that byte i of B belongs to.
RECURSIVE LineStart(_, _)
LineStart(B, i) ==
    IF i = 1 \/ IsEol(B[i - 1]) THEN i ELSE LineStart(B, i - 1)

\* The line B ends with, its last byte included (an EOL when the line is complete).
LastLine(B) == IF B = <<>> THEN <<>> ELSE SubSeq(B, LineStart(B, Len(B)), Len(B))

\* The indices of the EOL bytes of B.
Eols(B) == {i \in 1..Len(B) : IsEol(B[i])}

\* The complete line that ends at EOL index e of B.
LineAt(B, e) == SubSeq(B, LineStart(B, e), e)

\* A line that yields nothing: spaces and tabs only, and within the limit.
Silent(L, limit) ==
    /\ Len(L) <= limit
    /\ \A i \in 1..(Len(L) - 1) : IsBlank(L[i])

\* next() has just returned an outcome, and the history tells for which line.
JustReturned == fully_iterated /\ result.kind \in {"Ok", "Err"}

\* All the outcomes of iterating p's data to the end, as collect() gathers them.
RECURSIVE collect(_)
RECURSIVE after_item(_)
after_item(r) ==
    CASE r.result.kind = "None" -> <<>>
      [] r.result.kind = "Panic" -> <<r.result>>
      [] OTHER -> <<r.result>> \o collect(r.p)
collect(p) == after_item(next_message(p))

\* parser.append(B).collect() on a parser just constructed.
OneCall(B, limit) == collect(append(new_parser(limit), B))

(***************************************************************************)
(* C8.                                                                     *)
(***************************************************************************)
\* C8: in every reachable state, whatever the chunking, whether iterators are run
\* to their end or dropped early, and across reset(), buffer_size() is line_length
\* and is at most max_line_length.
C8_BufferSizeBounded ==
    /\ buffer_size(Cur) = line_length
    /\ buffer_size(Cur) <= max_line_length

\* A line longer than the limit is being read, by an iterator with bytes still to
\* parse: the count stands at the limit, and the line's error is recorded.
C8_Witness ==
    /\ max_line_length >= 1
    /\ buffer_size(Cur) = max_line_length
    /\ error.some /\ error.message = "Line too long"
    /\ iter = "live"

(***************************************************************************)
(* C3.                                                                     *)
(***************************************************************************)
\* C3: when every append is iterated to its end, the outcomes returned so far are
\* as many as the EOL bytes consumed so far that end a line that is not silent
\* (at every step, so each outcome comes with the step that consumes its EOL, a
\* blank line within the limit gives none, and bytes after the last EOL give
\* none); and a call that returns an outcome has stopped right after an EOL of
\* such a line.
C3_OneOutcomePerLine ==
    fully_iterated =>
        /\ Len(outcomes) =
             Cardinality({e \in Eols(consumed) :
                            ~Silent(LineAt(consumed, e), max_line_length)})
        /\ result.kind \in {"Ok", "Err"} =>
             /\ consumed # <<>> /\ IsEol(consumed[Len(consumed)])
             /\ ~Silent(LastLine(consumed), max_line_length)
             /\ result = outcomes[Len(outcomes)]

\* Two lines have given two outcomes, a blank line within the limit between them
\* has given none, and bytes of a line not yet ended are consumed already.
C3_Witness ==
    /\ fully_iterated
    /\ Len(outcomes) = 2
    /\ Cardinality(Eols(consumed)) > 2
    /\ consumed # <<>> /\ ~IsEol(consumed[Len(consumed)])

(***************************************************************************)
(* C2.                                                                     *)
(***************************************************************************)
\* C2: when every append is iterated to its end, the outcomes returned for the
\* bytes consumed so far, however they were cut into chunks, are the outcomes a
\* fresh parser with the same limit returns for the same bytes appended in one
\* call: the same messages and, for each error, the same message and position.
C2_StreamInsensitive ==
    trusted => outcomes = OneCall(consumed, max_line_length)

\* The same outcomes but for the position of "Message ID overflowed".
SamePositionOrOverflow(a, b) ==
    \/ a = b
    \/ /\ a.kind = "Err" /\ b.kind = "Err"
       /\ a.message = "Message ID overflowed" /\ b.message = a.message

\* What remains of C2: chunking changes nothing but the position reported with
\* "Message ID overflowed".
C2_UpToOverflowPosition ==
    trusted =>
        LET one == OneCall(consumed, max_line_length)
        IN  /\ Len(outcomes) = Len(one)
            /\ \A i \in 1..Len(one) : SamePositionOrOverflow(outcomes[i], one[i])

(***************************************************************************)
(* C10.                                                                    *)
(***************************************************************************)
\* The index of the first byte of L, from byte i in state st, that the grammar
\* does not allow (the table's entry for it has the action Error); 0 if none.
RECURSIVE FirstInvalid(_, _, _)
FirstInvalid(st, L, i) ==
    IF i > Len(L) THEN 0
    ELSE IF PARSER_TABLE[st][L[i]].action = "Error" THEN i
    ELSE FirstInvalid(PARSER_TABLE[st][L[i]].state, L, i + 1)

\* The decimal number D (no leading zero) is greater than the decimal number E.
RECURSIVE DigitsGreater(_, _)
DigitsGreater(D, E) ==
    IF Len(D) # Len(E) THEN Len(D) > Len(E)
    ELSE IF D = <<>> THEN FALSE
    ELSE IF Head(D) # Head(E) THEN Head(D) > Head(E)
    ELSE DigitsGreater(Tail(D), Tail(E))

\* The index of the first `[` of L, and of the last digit of the run after it.
BracketIndex(L) ==
    IF \E i \in 1..Len(L) : L[i] = LBRACKET
    THEN CHOOSE i \in 1..Len(L) : L[i] = LBRACKET /\ \A j \in 1..(i - 1) : L[j] # LBRACKET
    ELSE 0
RECURSIVE DigitsEnd(_, _)
DigitsEnd(L, i) ==
    IF i < Len(L) /\ IsDigit(L[i + 1]) THEN DigitsEnd(L, i + 1) ELSE i

\* The digits of the bracketed ID of L.
IdDigits(L) == SubSeq(L, BracketIndex(L) + 1, DigitsEnd(L, BracketIndex(L)))

\* The index in L of the first digit with which the ID exceeds 2^31-1; 0 if none.
OverflowIndex(L) ==
    IF \E j \in 1..Len(IdDigits(L)) :
           DigitsGreater(SubSeq(IdDigits(L), 1, j), format_decimal(I32_MAX))
    THEN BracketIndex(L)
         + CHOOSE j \in 1..Len(IdDigits(L)) :
               /\ DigitsGreater(SubSeq(IdDigits(L), 1, j), format_decimal(I32_MAX))
               /\ \A k \in 1..(j - 1) :
                      ~DigitsGreater(SubSeq(IdDigits(L), 1, k), format_decimal(I32_MAX))
    ELSE 0

\* The 1-based index in line L of the byte at which the problem msg is detected.
DetectedAt(L, limit, msg) ==
    CASE msg = "Line too long" -> limit + 1
      [] msg = "Message ID overflowed" -> OverflowIndex(L)
      [] OTHER -> FirstInvalid("Start", L, 1)

\* C10: the position of every error returned is the 1-based index, in its line,
\* of the byte at which the problem was detected: the first byte the grammar does
\* not allow, the digit with which the ID exceeds 2^31-1, the byte after the limit.
C10_PositionOfDetection ==
    (JustReturned /\ result.kind = "Err") =>
        result.position = DetectedAt(LastLine(consumed), max_line_length, result.message)

\* What remains of C10: the position is as claimed for "Invalid character" and
\* for "Line too long".
C10_ExceptOverflow ==
    (JustReturned /\ result.kind = "Err" /\ result.message # "Message ID overflowed") =>
        result.position = DetectedAt(LastLine(consumed), max_line_length, result.message)

\* For "Message ID overflowed" the position is that of the first digit of the
\* run of digits the overflowing digit was consumed with.
C10_OverflowAtRunStart ==
    (JustReturned /\ result.kind = "Err" /\ result.message = "Message ID overflowed") =>
        /\ result.position > BracketIndex(LastLine(consumed))
        /\ result.position <= OverflowIndex(LastLine(consumed))

(***************************************************************************)
(* C4.                                                                     *)
(***************************************************************************)
\* C4: when a line has yielded an error, of whatever kind, the parser and the
\* iterator are what a parser just constructed with the same limit, and an
\* iterator over the same remaining bytes, would be; so the outcomes for the
\* input that follows, S, are those of a fresh parser for S.
C4_ErrorLocality ==
    result.kind = "Err" =>
        /\ Cur = append(new_parser(max_line_length), data)
        /\ collect([Cur EXCEPT !.data = data \o input])
             = OneCall(data \o input, max_line_length)

\* A line has yielded "Invalid character" and the line after it a message.
C4_Witness ==
    /\ trusted
    /\ Len(outcomes) = 2
    /\ outcomes[1].kind = "Err" /\ outcomes[1].message = "Invalid character"
    /\ outcomes[2].kind = "Ok"
    /\ result = outcomes[2]

(***************************************************************************)
(* C5.                                                                     *)
(***************************************************************************)
\* The index of the first EOL byte of B (B has one).
FirstEol(B) == CHOOSE i \in Eols(B) : \A j \in Eols(B) : i <= j

\* C5: while an error is recorded the state is Error; a call of next() then
\* returns nothing and stays in Error, the error still recorded, if its data has
\* no EOL; and if its data has one, it stops right after the first and returns
\* one Err, never an Ok.
C5_ErrorAbsorbing ==
    /\ [](error.some => state = "Error")
    /\ [][(Next1 /\ error.some) =>
            IF Eols(data) = {}
            THEN /\ result'.kind = "None"
                 /\ data' = <<>>
                 /\ state' = "Error" /\ error'.some
                 /\ outcomes' = outcomes
            ELSE /\ result'.kind = "Err"
                 /\ Len(data) - Len(data') = FirstEol(data)
                 /\ ~error'.some
                 /\ fully_iterated => outcomes' = Append(outcomes, result')]_vars

\* A line in error has been read to its end: bytes followed the byte in error
\* before the EOL, and the line has yielded its Err.
C5_Witness ==
    /\ JustReturned /\ result.kind = "Err"
    /\ result.message = "Invalid character"
    /\ Len(LastLine(consumed)) > result.position + 1

(***************************************************************************)
(* C6.                                                                     *)
(***************************************************************************)
\* The problem met first in line L under the limit: the one detected at the
\* smallest index, the limit being checked before the byte is looked at.
FirstProblem(L, limit) ==
    LET long == IF Len(L) > limit THEN limit + 1 ELSE 0
        over == OverflowIndex(L)
        bad == FirstInvalid("Start", L, 1)
        Before(a, b) == a # 0 /\ (b = 0 \/ a < b)
    IN  CASE long # 0 /\ ~Before(over, long) /\ ~Before(bad, long) -> "Line too long"
          [] Before(over, bad) -> "Message ID overflowed"
          [] bad # 0 -> "Invalid character"
          [] OTHER -> ""

\* C6: an error once recorded is not replaced before it is returned, and the
\* error a line yields is the one recorded; its message is that of the first
\* problem of the line.
C6_FirstErrorWins ==
    /\ []((JustReturned /\ result.kind = "Err") =>
            result.message = FirstProblem(LastLine(consumed), max_line_length))
    /\ [][(Next1 /\ error.some) =>
            \/ result'.kind = "None" /\ error' = error
            \/ /\ result'.kind = "Err"
               /\ result'.message = error.message
               /\ result'.position = error.position]_vars

\* A line whose ID overflows and which then has a byte the grammar does not allow
\* has yielded "Message ID overflowed".
C6_Witness ==
    /\ JustReturned /\ result.kind = "Err"
    /\ result.message = "Message ID overflowed"
    /\ FirstInvalid("Start", LastLine(consumed), 1) # 0

(***************************************************************************)
(* C7.                                                                     *)
(***************************************************************************)
\* What line L yields when its length is no matter: under the fixture's limit,
\* which no line of these streams comes near.
Unlimited(L) == OneCall(L, FIXTURE_LIMIT)

\* The bytes P, the start of a line, raise an error under no limit.
ErrorWithin(P) == next_message(append(new_parser(FIXTURE_LIMIT), P)).p.error.some

\* C7: under a limit M >= 1, a line of at most M bytes, its EOL counted, yields
\* what it yields under no limit (never "Line too long"); a line of more than M
\* bytes whose first M bytes raise no error yields "Line too long" at M + 1; this
\* of every line, so also of the line after one that was too long.
C7_LineLengthLimit ==
    (JustReturned /\ max_line_length >= 1) =>
        /\ Len(LastLine(consumed)) <= max_line_length =>
             /\ result.message # "Line too long"
             /\ Len(Unlimited(LastLine(consumed))) = 1
             /\ result.kind = Unlimited(LastLine(consumed))[1].kind
             /\ trusted => SamePositionOrOverflow(result, Unlimited(LastLine(consumed))[1])
        /\ (/\ Len(LastLine(consumed)) > max_line_length
            /\ ~ErrorWithin(SubSeq(LastLine(consumed), 1, max_line_length))) =>
             result = ErrItem(ParseError("Line too long", max_line_length + 1))

\* A line one byte longer than the limit has yielded "Line too long" at M + 1, and
\* the line after it, of exactly M bytes, a message.
C7_Witness ==
    /\ trusted /\ max_line_length >= 1
    /\ Len(outcomes) = 2
    /\ outcomes[1] = ErrItem(ParseError("Line too long", max_line_length + 1))
    /\ outcomes[2].kind = "Ok"
    /\ result = outcomes[2]
    /\ Len(LastLine(consumed)) = max_line_length

(***************************************************************************)
(* C9.                                                                     *)
(***************************************************************************)
\* [A-Za-z][A-Za-z0-9-]*
NameOk(n) ==
    /\ n # <<>>
    /\ IsLetter(n[1])
    /\ \A i \in 1..Len(n) : IsLetter(n[i]) \/ IsDigit(n[i]) \/ n[i] = DASH

\* Absent, or in 1..2^31-1.
MidOk(m) == ~m.some \/ (m.value >= 1 /\ m.value <= I32_MAX)

\* Line L has a type, a name and then a bracketed ID that is empty, is 0 or starts
\* with 0, is not closed, or exceeds 2^31-1.
BadId(L) ==
    /\ BracketIndex(L) >= 3
    /\ L[1] \in {QMARK, BANG, HASH}
    /\ NameOk(SubSeq(L, 2, BracketIndex(L) - 1))
    /\ \/ IdDigits(L) = <<>>
       \/ IdDigits(L)[1] = ZERO
       \/ L[DigitsEnd(L, BracketIndex(L)) + 1] # RBRACKET
       \/ DigitsGreater(IdDigits(L), format_decimal(I32_MAX))

\* C9: every message returned, when every append is iterated to its end, has a
\* name of the grammar and an ID that is absent or in 1..2^31-1; and a line
\* with a bad ID yields an error, not a message.
C9_EveryMessageValid ==
    /\ (fully_iterated /\ result.kind = "Ok") =>
          NameOk(result.name) /\ MidOk(result.mid)
    /\ (fully_iterated /\ result.kind \in {"Ok", "Err", "Panic"}
          /\ BadId(LastLine(consumed))) =>
          result.kind = "Err"

\* What remains of C9: the ID the parser holds is absent or in 1..2^31-1 (the
\* assertion of Message::new cannot fire), so is the ID of every message; a line
\* with a bad ID yields an error; and the name is of the grammar as long as no
\* iterator is called again after it has returned None.
C9_ExceptNameAfterNone ==
    /\ MidOk(mid)
    /\ result.kind = "Ok" => MidOk(result.mid)
    /\ (trusted /\ result.kind = "Ok") => NameOk(result.name)
    /\ (fully_iterated /\ result.kind \in {"Ok", "Err", "Panic"}
          /\ BadId(LastLine(consumed))) =>
          result.kind = "Err"

(***************************************************************************)
(* C1.                                                                     *)
(***************************************************************************)
\* C1: a message with a type, a name of the grammar, an ID absent or in
\* 1..2^31-1 and any arguments is formatted without a panic, and its bytes,
\* appended to a fresh parser with a large limit, yield exactly one outcome when
\* iterated to the end: Ok of a message with the same type, name, ID and arguments.
C1_RoundTrip ==
    /\ to_vec(message).ok
    /\ ~panicked
    /\ Len(outcomes) <= 1
    /\ returned_none =>
         outcomes = <<OkItem(message.mtype, message.name, message.mid, message.arguments)>>

\* A message with the greatest ID, an empty argument and an argument of bytes
\* that are escaped has made the round trip.
C1_Witness ==
    /\ returned_none
    /\ message.mid = SomeMid(I32_MAX)
    /\ message.arguments = << <<>>, <<LOWER_A, NUL, UNDERSCORE>> >>
    /\ Len(outcomes) = 1 /\ outcomes[1].kind = "Ok"
    /\ outcomes[1].arguments = message.arguments

(***************************************************************************)
(* The wire grammar, read off the bytes of a complete line L (its EOL is   *)
(* its last byte) without the parser's tables:                             *)
(*   message  ::= sigil name ('[' id ']')? (space+ argument)* space* EOL   *)
(*   argument ::= (plainbyte | escape)+ | '\@'                             *)
(***************************************************************************)
IsNameByte(b) == IsLetter(b) \/ IsDigit(b) \/ b = DASH

\* The index of the last byte of the run of name bytes that byte i of L starts.
RECURSIVE NameRunEnd(_, _)
NameRunEnd(L, i) ==
    IF i < Len(L) /\ IsNameByte(L[i + 1]) THEN NameRunEnd(L, i + 1) ELSE i

\* The index of the last byte of the name of L; 0 if L does not start with a
\* sigil and a name.
NameEnd(L) ==
    IF Len(L) >= 2 /\ L[1] \in {QMARK, BANG, HASH} /\ IsLetter(L[2])
    THEN NameRunEnd(L, 2)
    ELSE 0

\* The digits between the `[` at index b of L and the byte that ends them make an
\* id: [1-9][0-9]*, at most 2^31-1, closed by `]`.
IdOkAt(L, b) ==
    /\ DigitsEnd(L, b) > b
    /\ L[b + 1] # ZERO
    /\ ~DigitsGreater(SubSeq(L, b + 1, DigitsEnd(L, b)), format_decimal(I32_MAX))
    /\ DigitsEnd(L, b) < Len(L)
    /\ L[DigitsEnd(L, b) + 1] = RBRACKET

\* The index of the last byte of `sigil name ('[' id ']')?` in L; 0 if L does not
\* start with one (a line that has a `[` after the name needs a good id).
HeadEnd(L) ==
    IF NameEnd(L) = 0 \/ NameEnd(L) = Len(L) THEN 0
    ELSE IF L[NameEnd(L) + 1] # LBRACKET THEN NameEnd(L)
    ELSE IF IdOkAt(L, NameEnd(L) + 1) THEN DigitsEnd(L, NameEnd(L) + 1) + 1
    ELSE 0

\* What follows the head of L, up to its EOL (not included).
Rest(L) == SubSeq(L, HeadEnd(L) + 1, Len(L) - 1)

\* The index of the last byte of the run of non-blank bytes that byte i of R starts.
RECURSIVE TokenEnd(_, _)
TokenEnd(R, i) ==
    IF i < Len(R) /\ ~IsBlank(R[i + 1]) THEN TokenEnd(R, i + 1) ELSE i

\* The maximal runs of non-blank bytes of R from byte i on, in order.
RECURSIVE TokensFrom(_, _)
TokensFrom(R, i) ==
    IF i > Len(R) THEN <<>>
    ELSE IF IsBlank(R[i]) THEN TokensFrom(R, i + 1)
    ELSE <<SubSeq(R, i, TokenEnd(R, i))>> \o TokensFrom(R, TokenEnd(R, i) + 1)

Tokens(R) == TokensFrom(R, 1)

\* The symbols that may follow a backslash in an escape, and what each stands for.
EscapeSymbols == {BACKSLASH, UNDERSCORE, ZERO, LOWER_N, LOWER_R, LOWER_E, LOWER_T}

Unescaped(sym) ==
    CASE sym = BACKSLASH -> BACKSLASH
      [] sym = UNDERSCORE -> SP
      [] sym = ZERO -> NUL
      [] sym = LOWER_N -> LF
      [] sym = LOWER_R -> CR
      [] sym = LOWER_E -> ESC
      [] sym = LOWER_T -> TAB

EmptyArgumentToken == <<BACKSLASH, AT>>

\* T, from byte i on, is a sequence of plain bytes and escapes.
RECURSIVE PlainOrEscapes(_, _)
PlainOrEscapes(T, i) ==
    IF i > Len(T) THEN TRUE
    ELSE IF T[i] = BACKSLASH
         THEN i < Len(T) /\ T[i + 1] \in EscapeSymbols /\ PlainOrEscapes(T, i + 2)
    ELSE T[i] \notin {NUL, ESC} /\ PlainOrEscapes(T, i + 1)

\* argument ::= (plainbyte | escape)+ | '\@'
ArgumentOk(T) == T = EmptyArgumentToken \/ (T # <<>> /\ PlainOrEscapes(T, 1))

\* The bytes the argument T stands for.
RECURSIVE DecodedFrom(_, _)
DecodedFrom(T, i) ==
    IF i > Len(T) THEN <<>>
    ELSE IF T[i] = BACKSLASH
         THEN <<Unescaped(T[i + 1])>> \o DecodedFrom(T, i + 2)
    ELSE <<T[i]>> \o DecodedFrom(T, i + 1)

Decoded(T) == IF T = EmptyArgumentToken THEN <<>> ELSE DecodedFrom(T, 1)

\* L is a message of the grammar.
ValidLine(L) ==
    /\ L # <<>> /\ IsEol(L[Len(L)])
    /\ HeadEnd(L) > 0
    /\ Rest(L) # <<>> => IsBlank(Rest(L)[1])
    /\ \A k \in 1..Len(Tokens(Rest(L))) : ArgumentOk(Tokens(Rest(L))[k])

\* next() has just returned for the line the history ends with.
LineDone == fully_iterated /\ result.kind \in {"Ok", "Err", "Panic"}

(***************************************************************************)
(* C11.                                                                    *)
(***************************************************************************)
\* C11: a line that is a message of the grammar (its id, if it has one, in
\* 1..2^31-1 with no leading zero) and is no longer than max_line_length, its EOL
\* counted, yields Ok when the parser reaches its end, whatever the chunking and
\* whatever lines came before it; and appended in one call to a parser just
\* constructed it yields exactly one outcome, which is Ok.
C11_ValidLineAccepted ==
    (/\ LineDone
     /\ ValidLine(LastLine(consumed))
     /\ Len(LastLine(consumed)) <= max_line_length) =>
        /\ result.kind = "Ok"
        /\ Len(OneCall(LastLine(consumed), max_line_length)) = 1
        /\ OneCall(LastLine(consumed), max_line_length)[1].kind = "Ok"
        /\ trusted => OneCall(LastLine(consumed), max_line_length) = <<result>>

\* A message with an id and an argument has been accepted.
C11_Witness ==
    /\ LineDone /\ result.kind = "Ok"
    /\ ValidLine(LastLine(consumed))
    /\ result.mid.some
    /\ result.arguments # <<>>

\* A message whose length is exactly the limit has been accepted.
C11_AtTheLimit ==
    /\ LineDone /\ result.kind = "Ok"
    /\ ValidLine(LastLine(consumed))
    /\ Len(LastLine(consumed)) = max_line_length

(***************************************************************************)
(* C12.                                                                    *)
(***************************************************************************)
\* The indices of the backslashes of L, from byte i on, that start an escape (a
\* backslash that follows one is its symbol, and starts none).
RECURSIVE EscapeStarts(_, _)
EscapeStarts(L, i) ==
    IF i > Len(L) THEN {}
    ELSE IF L[i] = BACKSLASH THEN {i} \cup EscapeStarts(L, i + 2)
    ELSE EscapeStarts(L, i + 1)

\* The `\@` of L, after its head, that are not an argument of their own: a byte
\* of the argument comes right before or right after.
Misplaced(L) ==
    {i \in EscapeStarts(L, HeadEnd(L) + 1) :
        /\ i < Len(L) /\ L[i + 1] = AT
        /\ \/ ~IsBlank(L[i - 1])
           \/ i + 2 <= Len(L) /\ ~IsBlank(L[i + 2]) /\ ~IsEol(L[i + 2])}

\* C12: a line in which a `\@` has other bytes of the same argument right before
\* or right after it yields no Ok; and in a line that yields Ok, an argument that
\* is `\@` alone is the empty argument.
C12_EmptyArgumentOnlyWhole ==
    LineDone =>
        /\ (HeadEnd(LastLine(consumed)) > 0 /\ Misplaced(LastLine(consumed)) # {}) =>
             result.kind # "Ok"
        /\ (result.kind = "Ok" /\ Misplaced(LastLine(consumed)) = {}) =>
             \A k \in 1..Len(Tokens(Rest(LastLine(consumed)))) :
                Tokens(Rest(LastLine(consumed)))[k] = EmptyArgumentToken =>
                    /\ k <= Len(result.arguments)
                    /\ result.arguments[k] = <<>>

\* What remains of C12: `\@` alone is the empty argument.
C12_AloneIsEmpty ==
    (LineDone /\ result.kind = "Ok" /\ Misplaced(LastLine(consumed)) = {}) =>
        \A k \in 1..Len(Tokens(Rest(LastLine(consumed)))) :
           Tokens(Rest(LastLine(consumed)))[k] = EmptyArgumentToken =>
               /\ k <= Len(result.arguments)
               /\ result.arguments[k] = <<>>

\* What the parser does with a `\@` inside an argument: the line yields Ok all the
\* same when nothing else is wrong with it, the `\@` standing for no byte.
C12_MisplacedIsAccepted ==
    (/\ LineDone
     /\ HeadEnd(LastLine(consumed)) > 0
     /\ Misplaced(LastLine(consumed)) # {}
     /\ Len(LastLine(consumed)) <= max_line_length
     /\ FirstInvalid("Start", LastLine(consumed), 1) = 0) =>
        result.kind = "Ok"

(***************************************************************************)
(* C13.                                                                    *)
(***************************************************************************)
\* L has, from byte i on, a backslash followed by a byte that is neither the
\* symbol of an escape nor `@` (the EOL of L being such a byte), or a NUL or an
\* ESC that is not the byte after a backslash.
RECURSIVE BadInArgument(_, _)
BadInArgument(L, i) ==
    IF i > Len(L) THEN FALSE
    ELSE IF L[i] = BACKSLASH
         THEN \/ i = Len(L)
              \/ L[i + 1] \notin EscapeSymbols \cup {AT}
              \/ BadInArgument(L, i + 2)
    ELSE L[i] \in {NUL, ESC} \/ BadInArgument(L, i + 1)

\* The head of L is followed by a blank: its arguments start after it.
HasArguments(L) ==
    HeadEnd(L) > 0 /\ HeadEnd(L) < Len(L) /\ IsBlank(L[HeadEnd(L) + 1])

\* C13: in a line that yields Ok, every argument is its bytes on the wire, each
\* plain byte standing for itself and each escape \\ \_ \0 \n \r \e \t for the
\* one byte backslash, space, NUL, LF, CR, ESC, TAB; a line within the limit whose
\* arguments have a backslash followed by any other byte except `@` (a backslash
\* right before the EOL included), or a bare NUL or ESC, yields
\* Err("Invalid character").
C13_EscapeDecoding ==
    LineDone =>
        /\ (result.kind = "Ok" /\ Misplaced(LastLine(consumed)) = {}) =>
             /\ Len(result.arguments) = Len(Tokens(Rest(LastLine(consumed))))
             /\ \A k \in 1..Len(result.arguments) :
                    result.arguments[k] = Decoded(Tokens(Rest(LastLine(consumed)))[k])
        /\ (/\ HasArguments(LastLine(consumed))
            /\ BadInArgument(LastLine(consumed), HeadEnd(LastLine(consumed)) + 2)
            /\ Len(LastLine(consumed)) <= max_line_length) =>
             result.kind = "Err" /\ result.message = "Invalid character"

\* An argument of five escapes has been decoded to its five bytes.
C13_Witness ==
    /\ LineDone /\ result.kind = "Ok"
    /\ Tokens(Rest(LastLine(consumed)))
         = << <<BACKSLASH, LOWER_N, BACKSLASH, LOWER_E, BACKSLASH, BACKSLASH,
                BACKSLASH, UNDERSCORE, BACKSLASH, ZERO>> >>
    /\ result.arguments = << <<LF, ESC, BACKSLASH, SP, NUL>> >>

\* A line with a backslash right before its EOL has yielded its error.
C13_BackslashBeforeEol ==
    /\ LineDone /\ result.kind = "Err" /\ result.message = "Invalid character"
    /\ HasArguments(LastLine(consumed))
    /\ Len(LastLine(consumed)) >= 2
    /\ LastLine(consumed)[Len(LastLine(consumed)) - 1] = BACKSLASH
    /\ result.position = Len(LastLine(consumed))

(***************************************************************************)
(* C15.                                                                    *)
(***************************************************************************)
\* C15: a line that yields Ok has a head of the grammar, and the message has as
\* many arguments as there are maximal runs of non-blank bytes between the head
\* and the EOL: blanks in a row make no empty argument, and blanks before the EOL
\* (after the name, after `]`, after the last argument) make no argument.
C15_ArgumentsAreRuns ==
    (LineDone /\ result.kind = "Ok") =>
        /\ HeadEnd(LastLine(consumed)) > 0
        /\ Len(result.arguments) = Len(Tokens(Rest(LastLine(consumed))))

\* A line with two blanks in a row before its argument and a blank before its
\* EOL has yielded a message with that one argument.
C15_Witness ==
    /\ LineDone /\ result.kind = "Ok"
    /\ Len(result.arguments) = 1
    /\ Len(Rest(LastLine(consumed))) >= 4
    /\ IsBlank(Rest(LastLine(consumed))[1]) /\ IsBlank(Rest(LastLine(consumed))[2])
    /\ IsBlank(Rest(LastLine(consumed))[Len(Rest(LastLine(consumed)))])

\* A line with blanks between `]` and the EOL has yielded a message with no argument.
C15_BlanksAfterId ==
    /\ LineDone /\ result.kind = "Ok"
    /\ result.mid.some
    /\ result.arguments = <<>>
    /\ Len(Rest(LastLine(consumed))) = 2

(***************************************************************************)
(* C14.                                                                    *)
(***************************************************************************)
\* B with every TAB replaced by a space and every CR by LF.
Canon(B) ==
    [i \in 1..Len(B) |->
        IF B[i] = TAB THEN SP ELSE IF B[i] = CR THEN LF ELSE B[i]]

\* B with TAB and space exchanged, and CR and LF.
Swapped(B) ==
    [i \in 1..Len(B) |->
        CASE B[i] = TAB -> SP
          [] B[i] = SP -> TAB
          [] B[i] = CR -> LF
          [] B[i] = LF -> CR
          [] OTHER -> B[i]]

\* In every row of the table the entry of TAB is that of space and the entry of
\* CR that of LF, fast table included; and a fast table has TAB where it has
\* space and CR where it has LF.
SameEntries ==
    \A s \in State :
        /\ PARSER_TABLE[s][TAB] = PARSER_TABLE[s][SP]
        /\ PARSER_TABLE[s][CR] = PARSER_TABLE[s][LF]
        /\ FAST_TABLE[s][TAB] = FAST_TABLE[s][SP]
        /\ FAST_TABLE[s][CR] = FAST_TABLE[s][LF]
        /\ \A ch \in Byte :
              /\ TAB \in FAST_TABLE[s][ch].bits <=> SP \in FAST_TABLE[s][ch].bits
              /\ CR \in FAST_TABLE[s][ch].bits <=> LF \in FAST_TABLE[s][ch].bits

\* C14: TAB has the table entry of space and CR that of LF in every state; and the
\* bytes consumed so far yield, appended to a fresh parser, the same outcomes
\* (messages, error messages and positions) when every raw TAB is replaced by a
\* space and every raw CR by LF, and when TAB and space, CR and LF are exchanged.
C14_BlankAndEolEquivalence ==
    /\ SameEntries
    /\ OneCall(Canon(consumed), max_line_length) = OneCall(consumed, max_line_length)
    /\ OneCall(Swapped(consumed), max_line_length) = OneCall(consumed, max_line_length)

\* A line with TABs for blanks and CR for its EOL has yielded a message.
C14_Witness ==
    /\ LineDone /\ result.kind = "Ok"
    /\ OneCall(consumed, max_line_length) = <<result>>
    /\ \E i \in 1..Len(consumed) : consumed[i] = TAB
    /\ consumed[Len(consumed)] = CR

(***************************************************************************)
(* C16.                                                                    *)
(***************************************************************************)
\* C16: when the last byte consumed is the EOL of a line of blanks only that is
\* within the limit, no outcome has been returned for it, the parser is in Start
\* with line_length 0 and nothing recorded; and "Line too long" is returned only
\* for a line that is itself longer than the limit, however many blank lines
\* came before it.
C16_BlankLines ==
    /\ (/\ fully_iterated
        /\ consumed # <<>> /\ IsEol(consumed[Len(consumed)])
        /\ Silent(LastLine(consumed), max_line_length)) =>
           /\ result.kind \notin {"Ok", "Err", "Panic"}
           /\ state = "Start" /\ line_length = 0
           /\ mtype = "None" /\ ~error.some
    /\ (JustReturned /\ result.message = "Line too long") =>
           Len(LastLine(consumed)) > max_line_length

\* After two blank lines, which together are longer than the limit, a line of
\* exactly the limit has yielded a message.
C16_Witness ==
    /\ LineDone /\ result.kind = "Ok"
    /\ outcomes = <<result>>
    /\ Cardinality(Eols(consumed)) = 3
    /\ Len(LastLine(consumed)) = max_line_length
    /\ Len(consumed) > 2 * max_line_length

(***************************************************************************)
(* C17.                                                                    *)
(***************************************************************************)
\* C17: whenever reset() can be called (no iterator borrows the parser), it gives
\* a parser equal to one just constructed with the same max_line_length, which
\* therefore yields for the input to come what a fresh parser yields; a second
\* reset() changes nothing more; and the step reset() leaves exactly that parser.
C17_Reset ==
    /\ [](iter = "none" =>
            /\ reset(Cur) = new_parser(max_line_length)
            /\ reset(reset(Cur)) = reset(Cur)
            /\ collect(append(reset(Cur), input)) = OneCall(input, max_line_length))
    /\ [][Reset => (Cur' = new_parser(max_line_length)
                    /\ max_line_length' = max_line_length)]_vars

\* reset() was called in the middle of the ID of `?m[12] x`: nothing is consumed
\* since, the rest of the line is still to come, and the parser is a fresh one.
C17_Witness ==
    /\ iter = "none" /\ fully_iterated
    /\ consumed = <<>>
    /\ input = <<50, RBRACKET, SP, 120, LF>>
    /\ Cur = new_parser(max_line_length)

\* reset() can be called in the middle of a name, of an ID, of an argument, after
\* a backslash, and with an error recorded at the length limit.
C17_MidName == iter = "none" /\ state = "Name" /\ name # <<>>
C17_MidId == iter = "none" /\ state = "Id" /\ mid.some
C17_MidArgument == iter = "none" /\ state = "Argument" /\ arguments # <<>>
C17_AfterBackslash == iter = "none" /\ state = "ArgumentEscape"
C17_ErrorAtLimit ==
    /\ iter = "none" /\ state = "Error" /\ error.some
    /\ max_line_length >= 1 /\ line_length = max_line_length

(***************************************************************************)
(* The size of a message on the wire, counted from the message alone.      *)
(***************************************************************************)
\* The number of decimal digits of n.
DecimalDigits(n) ==
    IF n = 0 THEN 1 ELSE Cardinality({k \in 0..9 : 10 ^ k <= n})

\* The bytes that are written as a backslash and a symbol.
EscapedBytes == {CR, LF, TAB, ESC, NUL, BACKSLASH, SP}

IsEscapedByte(b) == b \in EscapedBytes

EncodedLength(argument) ==
    IF argument = <<>> THEN 2
    ELSE Len(argument) + Len(SelectSeq(argument, IsEscapedByte))

\* The sum over the arguments of 1 + encoded length.
RECURSIVE EncodedArguments(_)
EncodedArguments(args) ==
    IF args = <<>> THEN 0
    ELSE 1 + EncodedLength(Head(args)) + EncodedArguments(Tail(args))

ExactSize(m) ==
    1 + Len(m.name)
    + (IF m.mid.some THEN 2 + DecimalDigits(m.mid.value) ELSE 0)
    + EncodedArguments(m.arguments)
    + 1

(***************************************************************************)
(* C18.                                                                    *)
(***************************************************************************)
\* C18: write_size() does not panic for these messages, and write_out, handed a
\* buffer of at least write_size() cells, writes exactly write_size() bytes, the
\* first cells of the buffer, and returns the cells after them, untouched: none
\* when the buffer has exactly write_size() cells, L - write_size() when it has L.
C18_SizeWriteAgreement ==
    returned_out.kind # "NoCall" =>
        /\ write_size(message).ok
        /\ Len(buffer) >= write_size(message).value =>
             /\ returned_out.kind = "Ok"
             /\ Len(returned_out.written) = write_size(message).value
             /\ \A i \in 1..Len(returned_out.written) : returned_out.written[i] \in Byte
             /\ returned_out.rest
                  = SubSeq(buffer, write_size(message).value + 1, Len(buffer))
             /\ Len(returned_out.rest) = Len(buffer) - write_size(message).value
        /\ Len(buffer) = write_size(message).value => returned_out.rest = <<>>

\* write_out panics when the buffer has fewer cells than write_size().
C18_ShortBufferPanics ==
    (returned_out.kind # "NoCall" /\ Len(buffer) < write_size(message).value) =>
        returned_out.kind = "Panic"

\* A message with an ID, an empty argument and an argument of bytes to escape
\* has been written to a buffer longer than its size, and the tail has come back.
C18_Witness ==
    /\ returned_out.kind = "Ok"
    /\ message.mid.some
    /\ message.arguments = << <<>>, <<CR, LF, TAB, ESC, NUL, BACKSLASH, SP>> >>
    /\ Len(buffer) = write_size(message).value + MaxSpare
    /\ Len(returned_out.rest) = MaxSpare

\* A message has been written to a buffer of exactly its size.
C18_ExactBuffer ==
    /\ returned_out.kind = "Ok"
    /\ message.arguments # <<>>
    /\ Len(buffer) = write_size(message).value
    /\ returned_out.rest = <<>>

(***************************************************************************)
(* C19.                                                                    *)
(***************************************************************************)
\* C19: write_size() returns 1 + len(name) + (2 + the number of decimal digits of
\* mid, if there is one) + the sum over the arguments of (1 + encoded length) + 1,
\* the encoded length of an argument being 2 if it is empty and else its length
\* plus the number of its bytes among CR, LF, TAB, ESC, NUL, backslash, space.
C19_SizeFormula ==
    returned_size.kind # "NoCall" =>
        /\ returned_size.kind = "Ok"
        /\ returned_size.value = ExactSize(message)

\* The size of a message with an ID of ten digits, an empty argument and an
\* argument of the seven bytes that are escaped has been computed.
C19_Witness ==
    /\ returned_size.kind = "Ok"
    /\ message.mid = SomeMid(1000000000)
    /\ message.arguments = << <<>>, <<CR, LF, TAB, ESC, NUL, BACKSLASH, SP>> >>
    /\ returned_size.value = 2 + Len(message.name) + 12 + 3 + 15

(***************************************************************************)
(* C20.                                                                    *)
(***************************************************************************)
\* C20: write_size() never returns a wrapped-around value: when the size of the
\* message exceeds usize::MAX it panics, and what it returns is the size of the
\* message (so it panics only then).
C20_NoWrapAround ==
    returned_size.kind # "NoCall" =>
        /\ ExactSize(message) > USIZE_MAX => returned_size.kind = "Panic"
        /\ returned_size.kind = "Ok" => returned_size.value = ExactSize(message)
        /\ ExactSize(message) <= USIZE_MAX => returned_size.kind = "Ok"

\* write_size() has panicked on a message of usize::MAX + 1 bytes, for which a
\* wrapped-around sum would be 0.
C20_Witness ==
    /\ returned_size.kind = "Panic"
    /\ ExactSize(message) = USIZE_MAX + 1

\* write_size() has returned usize::MAX for a message of that many bytes.
C20_AtUsizeMax ==
    /\ returned_size.kind = "Ok"
    /\ returned_size.value = USIZE_MAX
    /\ ExactSize(message) = USIZE_MAX

(***************************************************************************)
(* C21.                                                                    *)
(***************************************************************************)
\* The bytes write_out writes for m when the buffer is long enough.
Encoded(m) == write_out(m, as_out(uninit(ExactSize(m)))).written

\* The name or an argument has another length when write_out asks for it than
\* it had for write_size.
LengthChanged ==
    \/ Len(second_view.name) # Len(message.name)
    \/ \E i \in 1..Len(message.arguments) :
           Len(second_view.arguments[i]) # Len(message.arguments[i])

\* C21 as stated: to_vec returns a buffer only when write_out wrote exactly the
\* write_size() bytes allocated, and it panics whenever the name or an argument
\* reports another length during write_out than during write_size.
C21_ChangedLengthPanics ==
    /\ returned_vec.kind = "Ok" =>
          /\ Len(returned_vec.bytes) = write_size(message).value
          /\ returned_vec.bytes = Encoded(second_view)
    /\ (returned_vec.kind # "NoCall" /\ LengthChanged) => returned_vec.kind = "Panic"

\* C21, amended: to_vec returns a buffer only when write_out wrote exactly the
\* write_size() bytes allocated, all of them written; it panics exactly when the
\* number of bytes write_out has to write differs from write_size(), more or
\* fewer; a change of length that leaves that number the same is not noticed.
C21_SizeInvariant ==
    /\ returned_vec.kind = "Ok" =>
          /\ Len(returned_vec.bytes) = write_size(message).value
          /\ returned_vec.bytes = Encoded(second_view)
          /\ \A i \in 1..Len(returned_vec.bytes) : returned_vec.bytes[i] \in Byte
    /\ returned_vec.kind # "NoCall" =>
          (returned_vec.kind = "Panic" <=>
              ExactSize(second_view) # write_size(message).value)

\* to_vec has panicked because the name came out longer for write_out than it
\* was for write_size.
C21_Witness ==
    /\ returned_vec.kind = "Panic"
    /\ Len(second_view.name) > Len(message.name)
    /\ second_view.arguments = message.arguments

\* to_vec has panicked because an argument came out shorter.
C21_ShorterPanics ==
    /\ returned_vec.kind = "Panic"
    /\ second_view.name = message.name
    /\ Len(message.arguments) = 1
    /\ Len(second_view.arguments[1]) < Len(message.arguments[1])
    /\ ExactSize(second_view) < ExactSize(message)

\* to_vec has returned a buffer although an argument changed its length.
C21_UnnoticedChange ==
    /\ returned_vec.kind = "Ok"
    /\ LengthChanged

(***************************************************************************)
(* C22.                                                                    *)
(***************************************************************************)
\* The index in the output for m of the space written before argument k: after the
\* sigil, the name, the bracketed ID and the k - 1 arguments before it.
SpaceIndex(m, k) ==
    1 + Len(m.name)
      + (IF m.mid.some THEN 2 + DecimalDigits(m.mid.value) ELSE 0)
      + EncodedArguments(SubSeq(m.arguments, 1, k - 1))
      + 1

\* The indices of the bytes b of B.
IndicesOf(B, b) == {i \in 1..Len(B) : B[i] = b}

\* C22: for a message whose name is of the grammar, what write_out writes ends
\* with LF and has no CR and no other LF, begins with `?`, `!` or `#` according
\* to the type, has exactly one raw space per argument, right before the
\* encoding of that argument, and has no raw TAB, NUL or ESC.
C22_OutputShape ==
    (returned_out.kind = "Ok" /\ NameOk(message.name)) =>
        /\ IndicesOf(returned_out.written, LF) = {Len(returned_out.written)}
        /\ IndicesOf(returned_out.written, CR) = {}
        /\ returned_out.written[1] =
             (CASE message.mtype = "Request" -> QMARK
                [] message.mtype = "Reply" -> BANG
                [] message.mtype = "Inform" -> HASH)
        /\ IndicesOf(returned_out.written, SP) =
             {SpaceIndex(message, k) : k \in 1..Len(message.arguments)}
        /\ Cardinality(IndicesOf(returned_out.written, SP)) = Len(message.arguments)
        /\ IndicesOf(returned_out.written, TAB) = {}
        /\ IndicesOf(returned_out.written, NUL) = {}
        /\ IndicesOf(returned_out.written, ESC) = {}

\* A reply with a name of the grammar, an ID, an argument of the seven bytes that
\* are escaped and an empty argument has been written.
C22_Witness ==
    /\ returned_out.kind = "Ok"
    /\ message.mtype = "Reply"
    /\ NameOk(message.name)
    /\ message.mid.some
    /\ message.arguments = << <<CR, LF, TAB, ESC, NUL, BACKSLASH, SP>>, <<>> >>

\* Without a name of the grammar the output has an LF that is not its last byte.
C22_BadNameBreaksLine ==
    /\ returned_out.kind = "Ok"
    /\ ~NameOk(message.name)
    /\ IndicesOf(returned_out.written, LF) # {Len(returned_out.written)}

(***************************************************************************)
(* C23.                                                                    *)
(***************************************************************************)
\* No line is in progress: no name, no arguments, no ID, in the parser or in the
\* iterator's Transient.
NothingBuffered ==
    /\ name = <<>>
    /\ arguments = <<>>
    /\ mid = NoneMid
    /\ transient = EmptyTransient

\* C23: between the calls of next(), when every iterator is run to its end, a
\* parser whose mtype is absent has an empty name, no arguments and no ID.
C23_NoTypeNothingBuffered ==
    (fully_iterated /\ mtype = "None") => NothingBuffered

\* The same when iterators are dropped early or called again after None.
C23_AlsoWhenMisused == mtype = "None" => NothingBuffered

\* A line with an ID and arguments has been returned as a message, and no other
\* since: the type is absent again.
C23_Witness ==
    /\ fully_iterated
    /\ Len(outcomes) = 1 /\ outcomes[1].kind = "Ok"
    /\ outcomes[1].mid.some /\ outcomes[1].arguments # <<>>
    /\ mtype = "None"

\* A line that starts with a byte that is no type is being skipped, in Error.
C23_ErrorWithoutType ==
    /\ fully_iterated
    /\ mtype = "None" /\ state = "Error" /\ error.some
    /\ Len(LastLine(consumed)) >= 2

(***************************************************************************)
(* C24.                                                                    *)
(***************************************************************************)
\* Two items are both None, both a panic, the same message, or errors with the
\* same error message.
SameOutcome(a, b) ==
    /\ a.kind = b.kind
    /\ a.mtype = b.mtype /\ a.name = b.name /\ a.mid = b.mid
    /\ a.arguments = b.arguments
    /\ a.message = b.message

\* C24: after every call, for every input, chunking and limit, the parser that
\* consumes runs through the fast tables and the parser that dispatches every
\* byte through TABLE[state][byte] have returned the same message or the same
\* error message (or both nothing), and have the same state, line_length, mtype,
\* mid, name and arguments; so have their iterators the same bytes left and the
\* same Transient, and the same error message is recorded in both.
C24_FastEqualsSlow ==
    /\ SameOutcome(result, slow_result)
    /\ slow.state = state
    /\ slow.line_length = line_length
    /\ slow.mtype = mtype
    /\ slow.mid = mid
    /\ slow.name = name
    /\ slow.arguments = arguments
    /\ slow.data = data
    /\ slow.t_name = transient.name
    /\ slow.t_arguments = transient.arguments
    /\ slow.error.some = error.some
    /\ slow.error.message = error.message

\* The two parsers differ in nothing but the position reported with "Message ID
\* overflowed".
C24_PositionsButOverflow ==
    /\ result.message # "Message ID overflowed" => slow_result = result
    /\ error.message # "Message ID overflowed" => slow = Cur

\* Both parsers have returned the message of `?m[12] x`, whose digits the fast
\* path takes as one run when they come in one chunk.
C24_Witness ==
    /\ fully_iterated /\ max_line_length = FIXTURE_LIMIT
    /\ result.kind = "Ok" /\ slow_result = result
    /\ result.mid = SomeMid(12)
    /\ result.arguments = << <<120>> >>

\* Both have returned a message with a name of four bytes, a run of the fast path.
C24_NameRun ==
    /\ fully_iterated
    /\ result.kind = "Ok" /\ slow_result = result
    /\ Len(result.name) = 4

\* The fast path has consumed a run in Error, up to the limit and beyond it.
C24_ErrorRun ==
    /\ fully_iterated /\ max_line_length \in 1..MaxLimit
    /\ result.kind = "Err" /\ slow_result = result
    /\ Len(LastLine(consumed)) > max_line_length + 1
    /\ result.position < max_line_length

\* An ID overflows in the middle of a run of digits: the fast path reports the
\* position of the first digit of the run, the other parser that of the digit.
C24_OverflowPositionDiffers ==
    /\ result.kind = "Err" /\ slow_result.kind = "Err"
    /\ result.message = "Message ID overflowed"
    /\ result.position < slow_result.position

(***************************************************************************)
(* C25.                                                                    *)
(***************************************************************************)
\* C25: the entry at (S, b) has a fast table only if its action is one of
\* Nothing, Name, Id, Argument, Error and its next state T is not terminal; the
\* table then has a bit set, and its bit for b' is set exactly when TABLE[T][b']
\* stays in T with an action of the same kind and does not create an argument;
\* so no fast table has the bit of LF or CR, and no entry with the action
\* SetType, ArgumentEscaped or ResetLineLength has a fast table.
C25_FastTableConstruction ==
    /\ looked_up.fast_table.some =>
          /\ looked_up.entry.action \in {"Nothing", "Name", "Id", "Argument", "Error"}
          /\ looked_up.entry.state \notin {"EndOfLine", "ErrorEndOfLine"}
          /\ looked_up.fast_table.bits # {}
          /\ \A b \in Byte :
                b \in looked_up.fast_table.bits <=>
                    /\ PARSER_TABLE[looked_up.entry.state][b].state = looked_up.entry.state
                    /\ PARSER_TABLE[looked_up.entry.state][b].action = looked_up.entry.action
                    /\ ~PARSER_TABLE[looked_up.entry.state][b].create_argument
          /\ LF \notin looked_up.fast_table.bits
          /\ CR \notin looked_up.fast_table.bits
    /\ looked_up.entry.action \in {"SetType", "ArgumentEscaped", "ResetLineLength"} =>
          ~looked_up.fast_table.some

\* The entry of a plain byte in BeforeArgument, which creates the argument, has
\* the fast table of the bytes that go on with the argument: other plain bytes,
\* but no blank, no backslash and no end of line.
C25_Witness ==
    /\ looked_up.state = "BeforeArgument" /\ looked_up.byte = LOWER_A
    /\ looked_up.entry.create_argument
    /\ looked_up.fast_table.some
    /\ {LOWER_A, AT, BYTE_MAX} \subseteq looked_up.fast_table.bits
    /\ looked_up.fast_table.bits \cap {SP, TAB, BACKSLASH, NUL, ESC, LF, CR} = {}

\* An entry that could be merged and stays out of the terminal states has no
\* fast table, for no byte would go on with it: `[` after a name.
C25_NoBitNoTable ==
    /\ looked_up.state = "Name" /\ looked_up.byte = LBRACKET
    /\ looked_up.entry.action = "Nothing" /\ looked_up.entry.state = "BeforeId"
    /\ ~looked_up.fast_table.some

\* The entries of the rows of the terminal states have no fast table.
C25_TerminalRows ==
    looked_up.state \in {"EndOfLine", "ErrorEndOfLine"} => ~looked_up.fast_table.some

(***************************************************************************)
(* C26.                                                                    *)
(***************************************************************************)
\* The number the decimal digits D stand for (0 for none).
RECURSIVE DecimalValue(_)
DecimalValue(D) ==
    IF D = <<>> THEN 0
    ELSE DecimalValue(SubSeq(D, 1, Len(D) - 1)) * 10 + (D[Len(D)] - ZERO)

\* The digits of the ID of line L before the one with which it exceeds 2^31-1.
InRangeDigits(L) == SubSeq(IdDigits(L), 1, OverflowIndex(L) - BracketIndex(L) - 1)

\* `?a[2147483647]` and `?a[2147483648]`, with their EOL.
MaxIdLine == <<QMARK, LOWER_A, LBRACKET>> \o format_decimal(I32_MAX) \o <<RBRACKET, LF>>
OverMaxIdLine ==
    <<QMARK, LOWER_A, LBRACKET>> \o format_decimal(I32_MAX \div 10) \o <<ZERO + 8, RBRACKET, LF>>

\* C26: the ID held never exceeds 2^31-1; while the digits of the ID are read
\* (state Id) it is the decimal value of the digits of this line so far; once
\* "Message ID overflowed" is recorded the state is Error and the ID is the value
\* of the digits before the one that overflowed, whatever digits follow;
\* `[2147483647]` is accepted and `[2147483648]` is rejected.
C26_IdAccumulation ==
    /\ mid.some => mid.value >= 1 /\ mid.value <= I32_MAX
    /\ (fully_iterated /\ state = "BeforeId") => ~mid.some
    /\ (fully_iterated /\ state = "Id") =>
          /\ OverflowIndex(LastLine(consumed)) = 0
          /\ mid = SomeMid(DecimalValue(IdDigits(LastLine(consumed))))
    /\ (fully_iterated /\ error.some /\ error.message = "Message ID overflowed") =>
          /\ state = "Error"
          /\ OverflowIndex(LastLine(consumed)) # 0
          /\ mid = SomeMid(DecimalValue(InRangeDigits(LastLine(consumed))))
    /\ (JustReturned /\ max_line_length = FIXTURE_LIMIT
          /\ LastLine(consumed) = MaxIdLine) =>
          result.kind = "Ok" /\ result.mid = SomeMid(I32_MAX)
    /\ (JustReturned /\ max_line_length = FIXTURE_LIMIT
          /\ LastLine(consumed) = OverMaxIdLine) =>
          result.kind = "Err" /\ result.message = "Message ID overflowed"

\* The ID of `?a[2147483648]` has overflowed at its last digit, and `]` has been
\* consumed since: the ID held is 214748364.
C26_Witness ==
    /\ fully_iterated
    /\ state = "Error" /\ error.message = "Message ID overflowed"
    /\ mid = SomeMid(214748364)
    /\ consumed[Len(consumed)] = RBRACKET

\* `?a[2147483647]` has been accepted.
C26_MaxAccepted ==
    /\ JustReturned /\ LastLine(consumed) = MaxIdLine
    /\ result.kind = "Ok" /\ result.mid = SomeMid(I32_MAX)

\* `?a[2147483648]` has been rejected.
C26_OverMaxRejected ==
    /\ JustReturned /\ LastLine(consumed) = OverMaxIdLine
    /\ result.kind = "Err" /\ result.message = "Message ID overflowed"

\* The ID of `?a[30000000001]` has overflowed at its tenth digit, and the digit
\* after that one has been consumed: the ID held is still 300000000.
C26_DigitAfterOverflow ==
    /\ fully_iterated
    /\ error.message = "Message ID overflowed"
    /\ mid = SomeMid(300000000)
    /\ consumed[Len(consumed)] = ONE

\* The ID has reached 2^31-1 and overflowed with the digit after it.
C26_OverflowAfterMax ==
    /\ fully_iterated
    /\ error.message = "Message ID overflowed"
    /\ mid = SomeMid(I32_MAX)

(***************************************************************************)
(* C27.                                                                    *)
(***************************************************************************)
\* C27: from the moment an error is recorded on a line until the line's EOL
\* (that is, while an error is recorded), the name and the arguments in
\* progress are empty, in the parser and in the iterator's Transient.
C27_BuffersCleared ==
    (trusted /\ error.some) =>
        /\ name = <<>> /\ transient.name = <<>>
        /\ arguments = <<>> /\ transient.arguments = <<>>

\* What remains of C27: while an error is recorded there are no arguments in
\* progress, in the parser or in the Transient.
C27_ArgumentsCleared ==
    error.some => (arguments = <<>> /\ transient.arguments = <<>>)

\* The name of a line is still held, by the Transient or by the parser, while
\* the error of the line is recorded.
C27_NameKeptInTransient ==
    /\ trusted /\ error.some
    /\ transient.name # <<>>
C27_NameKeptInParser ==
    /\ trusted /\ error.some /\ iter = "none"
    /\ name # <<>>

\* An error has been recorded on a line that had arguments in progress, some of
\* them read by an earlier iterator.
C27_ArgumentsWereHeld ==
    /\ trusted /\ error.some /\ error.message = "Invalid character"
    /\ error.position >= 5
    /\ arguments = <<>> /\ transient.arguments = <<>>

(***************************************************************************)
(* C28.                                                                    *)
(***************************************************************************)
\* C28: between calls the parser is never in EndOfLine or ErrorEndOfLine, and
\* right after a call of next() that returned a message or an error the parser
\* is as one just constructed: state Start, line_length 0, no type, no ID, no
\* error, no name and no arguments, in the parser or in the Transient.
C28_TerminalStatesOneShot ==
    /\ state \notin {"EndOfLine", "ErrorEndOfLine"}
    /\ result.kind \in {"Ok", "Err"} =>
          /\ state = "Start"
          /\ line_length = 0
          /\ mtype = "None" /\ ~mid.some /\ ~error.some
          /\ name = <<>> /\ arguments = <<>>
          /\ transient.name = <<>> /\ transient.arguments = <<>>

\* A message with an argument has been returned by an iterator that has bytes
\* of the next line still to parse.
C28_Witness ==
    /\ result.kind = "Ok"
    /\ result.arguments # <<>>
    /\ data # <<>>
    /\ state = "Start" /\ line_length = 0

\* A message with an ID has been returned.
C28_AfterId ==
    /\ result.kind = "Ok"
    /\ result.mid.some
    /\ state = "Start" /\ ~mid.some

\* An error has been returned for a line longer than the limit.
C28_AfterError ==
    /\ result.kind = "Err" /\ result.message = "Line too long"
    /\ max_line_length \in 1..MaxLimit
    /\ Len(LastLine(consumed)) > max_line_length
    /\ state = "Start" /\ line_length = 0

(***************************************************************************)
(* C29.                                                                    *)
(***************************************************************************)
\* The bytes of B after its last EOL byte (all of B if it has none).
RECURSIVE SinceEol(_)
SinceEol(B) ==
    IF B = <<>> \/ IsEol(B[Len(B)]) THEN <<>>
    ELSE Append(SinceEol(SubSeq(B, 1, Len(B) - 1)), B[Len(B)])

\* The bytes the call of next() that made this step has consumed.
ConsumedByStep == SubSeq(data, 1, Len(data) - Len(data'))

\* C29: between calls, line_length is the smaller of max_line_length and the
\* number of bytes consumed since the latest of: the last EOL byte (of a
\* message, of a line in error or of a blank line), the last reset(), the
\* construction; and a call that consumes no EOL leaves a line_length that has
\* reached max_line_length as it is.
C29_LineLengthAccounting ==
    /\ [](fully_iterated =>
             line_length = Min(Len(SinceEol(consumed)), max_line_length))
    /\ [][(Next1 /\ line_length = max_line_length /\ Eols(ConsumedByStep) = {}) =>
             line_length' = line_length]_vars

\* The second line of a stream has gone beyond the limit by two bytes and more,
\* and the count stands at the limit.
C29_Witness ==
    /\ fully_iterated
    /\ max_line_length \in 1..MaxLimit
    /\ Eols(consumed) # {}
    /\ Len(SinceEol(consumed)) >= max_line_length + 2
    /\ line_length = max_line_length

\* The count is below the limit and not zero, on a line after a blank line.
C29_BelowLimit ==
    /\ fully_iterated
    /\ Cardinality(Eols(consumed)) >= 2
    /\ line_length >= 2 /\ line_length < max_line_length
    /\ line_length = Len(SinceEol(consumed))

\* reset() was called in the middle of the ID of `?m[12] x`, and two bytes have
\* been consumed since: they are counted from the reset.
C29_AfterReset ==
    /\ fully_iterated
    /\ consumed = <<50, RBRACKET>>
    /\ input = <<SP, 120, LF>>
    /\ line_length = 2

(***************************************************************************)
(* C30: the shape of the table.                                            *)
(***************************************************************************)
\* The four rules of the shape, for the entry found at TABLE[s][ch].
EolEntryEndsLine(s, ch, e) ==
    ch \in {LF, CR} => e.state \in {"EndOfLine", "ErrorEndOfLine", "Start"}

OnlyEolIsTerminal(s, ch, e) ==
    ch \notin {LF, CR} => ~is_terminal(e.state)

ErrorStateHasErrorAction(s, ch, e) ==
    e.state \in {"Error", "ErrorEndOfLine"} => e.action = "Error"

CreateOnlyBeforeArgument(s, ch, e) ==
    e.create_argument =>
        s = "BeforeArgument" /\ e.state \in {"Argument", "ArgumentEscape"}

\* C30: the table has 13 rows, and in every row the entries for LF and for CR
\* have a next state among EndOfLine, ErrorEndOfLine and Start, no entry for any
\* other byte has a terminal next state, every entry whose next state is Error
\* or ErrorEndOfLine has action Error, and create_argument is set only on
\* entries of the row of BeforeArgument whose next state is Argument or
\* ArgumentEscape.
C30_TableShape ==
    /\ Cardinality(State) = 13
    /\ DOMAIN PARSER_TABLE = State
    /\ looked_up # NoLookup =>
          /\ looked_up.state \in State /\ looked_up.byte \in Byte
          /\ EolEntryEndsLine(looked_up.state, looked_up.byte, looked_up.entry)
          /\ OnlyEolIsTerminal(looked_up.state, looked_up.byte, looked_up.entry)
          /\ ErrorStateHasErrorAction(looked_up.state, looked_up.byte, looked_up.entry)
          /\ CreateOnlyBeforeArgument(looked_up.state, looked_up.byte, looked_up.entry)

\* The CR entry of a row whose closure gives Error for LF (Id) has been read: it
\* is the promoted LF entry, next state ErrorEndOfLine with action Error.
C30_Witness ==
    /\ looked_up.state = "Id" /\ looked_up.byte = CR
    /\ looked_up.entry.state = "ErrorEndOfLine"
    /\ looked_up.entry.action = "Error"

\* An LF entry that ends a message, one that restarts the line, and an entry
\* for another byte that leads to Error.
C30_EndOfLineEntry ==
    /\ looked_up.state = "Argument" /\ looked_up.byte = LF
    /\ looked_up.entry.state = "EndOfLine" /\ looked_up.entry.action = "Nothing"

C30_StartEntry ==
    /\ looked_up.state = "Empty" /\ looked_up.byte = CR
    /\ looked_up.entry.state = "Start"
    /\ looked_up.entry.action = "ResetLineLength"

C30_ErrorEntry ==
    /\ looked_up.state = "Argument" /\ looked_up.byte = ESC
    /\ looked_up.entry.state = "Error" /\ looked_up.entry.action = "Error"

\* Entries with create_argument: the first byte of an argument and the
\* backslash that opens one.
C30_CreatesArgument ==
    /\ looked_up.state = "BeforeArgument" /\ looked_up.byte = LOWER_A
    /\ looked_up.entry.create_argument /\ looked_up.entry.state = "Argument"

C30_CreatesEscapedArgument ==
    /\ looked_up.state = "BeforeArgument" /\ looked_up.byte = BACKSLASH
    /\ looked_up.entry.create_argument
    /\ looked_up.entry.state = "ArgumentEscape"

\* The entries of the BeforeArgument row that do not create an argument: SP, TAB,
\* the EOL bytes, NUL and ESC.
C30_NotEveryEntryCreates ==
    /\ looked_up.state = "BeforeArgument" /\ looked_up.byte = TAB
    /\ ~looked_up.entry.create_argument
    /\ looked_up.entry.state = "BeforeArgument"

(***************************************************************************)
(* C31: next() again on an iterator that has returned None.                *)
(***************************************************************************)
\* The fields of the parser that a call without effect leaves alone; the name and
\* the arguments in progress are the parser's own, the Transient having handed
\* them back at the first None.
SameButName ==
    /\ state' = state
    /\ line_length' = line_length
    /\ mtype' = mtype
    /\ mid' = mid
    /\ arguments' = arguments
    /\ transient' = transient

\* C31: next() on a ParseIterator that has already returned None returns None
\* and leaves state, line_length, mtype, mid, the name in progress and the
\* arguments in progress as they were.
C31_NextAfterNoneNoOp ==
    [][NextAfterNone =>
          /\ result'.kind = "None"
          /\ SameButName
          /\ name' = name]_vars

\* What the second call does keep: it returns None and changes nothing but the
\* name, which it empties.
C31_NoOpButName ==
    [][NextAfterNone =>
          /\ result'.kind = "None"
          /\ SameButName
          /\ name' = <<>>]_vars

\* The name `a` of a line still open is held by the parser after the first None,
\* and the iterator is still there to be called again.
C31_NameAtStake ==
    /\ iter = "live" /\ returned_none /\ trusted
    /\ state = "Name" /\ name = <<LOWER_A>>

\* The line `?a` + LF, its name read by an iterator that was called again after
\* None, comes out as a message without a name.
C31_SplitLineLosesName ==
    /\ fully_iterated /\ ~trusted
    /\ consumed = <<QMARK, LOWER_A, LF>>
    /\ result = OkItem("Request", <<>>, NoneMid, <<>>)

(***************************************************************************)
(* C32: append() whose iterator is dropped without a call of next().       *)
(***************************************************************************)
\* The parser after `drop(parser.append(d))`.
AppendedAndDropped(d) == drop(append(Cur, d))

\* The fields C32 names are in q what they are now.
SameParser(q) ==
    /\ q.state = state
    /\ q.line_length = line_length
    /\ q.mtype = mtype
    /\ q.mid = mid
    /\ q.name = name
    /\ q.arguments = arguments

\* C32: whatever the parser holds, appending any next part of the stream and
\* dropping the iterator without a call of next() leaves state, line_length,
\* mtype, mid, the name in progress and every argument in progress as they
\* were.
C32_AppendDropNoOp ==
    (iter = "none" /\ ~panicked) =>
        \A k \in 0..Len(input) : SameParser(AppendedAndDropped(SubSeq(input, 1, k)))

\* What does hold of it: state, line_length, mtype and mid are kept, the name is
\* emptied and the last argument, if there is one, is removed.
C32_NameAndLastArgumentLost ==
    (iter = "none" /\ ~panicked) =>
        \A k \in 0..Len(input) :
            LET q == AppendedAndDropped(SubSeq(input, 1, k))
            IN  /\ q.state = state
                /\ q.line_length = line_length
                /\ q.mtype = mtype
                /\ q.mid = mid
                /\ q.name = <<>>
                /\ q.arguments = SubSeq(arguments, 1, Len(arguments) - 1)

\* The same of the steps taken: an iterator dropped before its first next()
\* takes the name and the last argument with it; the bytes stay the caller's.
C32_DropTakesTransient ==
    [][(DropEarly /\ result.kind = "NoCall") =>
          /\ state' = state /\ line_length' = line_length
          /\ mtype' = mtype /\ mid' = mid
          /\ name' = <<>> /\ arguments' = arguments
          /\ transient'.name = <<>> /\ transient'.arguments = <<>>
          /\ input' = data \o input]_vars

\* An iterator that has not been called yet holds the name `a` of the open line.
C32_NameInTransient ==
    /\ iter = "live" /\ result.kind = "NoCall" /\ trusted
    /\ state = "Name" /\ transient.name = <<LOWER_A>> /\ name = <<>>

\* An iterator that has not been called yet holds the last argument of the open
\* line.
C32_LastArgumentInTransient ==
    /\ iter = "live" /\ result.kind = "NoCall" /\ trusted
    /\ state = "Argument" /\ transient.arguments # <<>> /\ arguments = <<>>
    /\ data # <<>>

\* After such a drop the parser is in state Argument without an argument, and
\* the next byte of the argument makes next() panic.
C32_PanicAfterDrop ==
    /\ panicked /\ state = "Argument" /\ arguments = <<>>
    /\ transient.arguments = <<>>

(***************************************************************************)
(* C33: the unwraps of Parser::apply at the terminal states.               *)
(***************************************************************************)
\* A call of next() has unwound at a terminal state: apply leaves the state it
\* was about to report.
TerminalUnwrapFailed == panicked /\ is_terminal(state)

\* C33: when every iterator is run to exhaustion, for every input, chunking and
\* limit, no unwrap at a terminal state fails: state Error always comes with a
\* pending error, so the end of a line in error has an error to take, and the
\* end of a line is reached only with a type and a non-empty name, which the
\* message returned carries.
C33_TerminalUnwrapsSafe ==
    fully_iterated =>
        /\ state = "Error" => error.some
        /\ ~TerminalUnwrapFailed
        /\ result.kind = "Err" => result.message # ""
        /\ result.kind = "Ok" => result.mtype \in MessageType /\ result.name # <<>>

\* What holds of it.  The unwraps never fail, whatever the caller does, and a
\* message always has its type; its name is not empty as long as no iterator was
\* called again after it returned None, a call that empties the name the parser
\* holds.
C33_UnwrapsSafeNameIfNotCalledAgain ==
    /\ state = "Error" => error.some
    /\ ~TerminalUnwrapFailed
    /\ panicked => state = "Argument"
    /\ fully_iterated => ~panicked
    /\ result.kind = "Err" => result.message # ""
    /\ result.kind = "Ok" => result.mtype \in MessageType
    /\ (trusted /\ result.kind = "Ok") => result.name # <<>>

\* The end of a line is reached without a name: every iterator was run to
\* exhaustion, one of them was called once more.
C33_EndOfLineWithoutName ==
    /\ fully_iterated /\ ~trusted
    /\ result.kind = "Ok" /\ result.name = <<>> /\ result.mtype = "Request"

\* The end of a line in error under limit 0, with the error to take.
C33_ErrorTakenAtLimitZero ==
    /\ trusted /\ max_line_length = 0
    /\ result.kind = "Err" /\ result.message = "Line too long"
    /\ state = "Start" /\ ~error.some

\* State Error with its pending error, between two appends.
C33_ErrorPending ==
    /\ trusted /\ iter = "none"
    /\ state = "Error" /\ error.some /\ error.message = "Invalid character"

(***************************************************************************)
(* C34: the argument that Argument and ArgumentEscaped append to.          *)
(***************************************************************************)
\* The arguments of the line in progress: those the parser holds, then those of
\* the iterator's Transient.
HeldArguments == arguments \o transient.arguments

\* The states in which a line has arguments in progress.
ArgumentStates == {"BeforeArgument", "Argument", "ArgumentEscape"}

\* A is a prefix of B.
IsPrefix(A, B) == Len(A) <= Len(B) /\ SubSeq(B, 1, Len(A)) = A

\* New holds the arguments of Old, the last of them grown at its end and no
\* other changed, and maybe more arguments after them.
GrownAtTheEnd(Old, New) ==
    /\ Len(Old) <= Len(New)
    /\ \A i \in 1..(Len(Old) - 1) : New[i] = Old[i]
    /\ Old # <<>> => IsPrefix(Old[Len(Old)], New[Len(Old)])

\* The part of the unfinished line L that follows its head.
OpenRest(L) == SubSeq(L, HeadEnd(L) + 1, Len(L))

\* C34: when every iterator is run to exhaustion, for every input and every
\* chunking, Argument and ArgumentEscaped always find a last argument (no call
\* of next() unwinds); a line with arguments in progress holds one argument for
\* each run of non-blank bytes read so far; and a call of next() that stays in
\* the line or ends it leaves the arguments read before it as they were but for
\* the last, the one most recently created, which it extends.
C34_LastArgumentPresent ==
    /\ [](fully_iterated =>
            /\ ~panicked
            /\ state \in ArgumentStates =>
                 Len(HeldArguments) = Len(Tokens(OpenRest(SinceEol(consumed)))))
    /\ [][(Next1 /\ fully_iterated /\ state \in ArgumentStates) =>
            /\ (result'.kind = "None" /\ state' \in ArgumentStates) =>
                 GrownAtTheEnd(HeldArguments, HeldArguments')
            /\ result'.kind = "Ok" =>
                 GrownAtTheEnd(HeldArguments, result'.arguments)]_vars

\* Of the line `!e \n\e\\\_\0` a chunk has ended right after the third backslash:
\* ArgumentEscaped has been applied twice to the one argument of the line,
\* which the parser holds until the next chunk comes.
C34_Witness ==
    /\ trusted /\ iter = "none"
    /\ state = "ArgumentEscape"
    /\ arguments = << <<LF, ESC>> >>
    /\ input # <<>>

\* The whole of that line has been read, in whatever chunks: one argument.
C34_AllEscapesInOneArgument ==
    /\ trusted /\ result.kind = "Ok"
    /\ result.arguments = << <<LF, ESC, BACKSLASH, SP, NUL>> >>

\* A chunk has ended inside an argument: the parser holds the argument so far.
C34_BoundaryInsideArgument ==
    /\ trusted /\ iter = "none"
    /\ state = "Argument" /\ arguments = << <<LF, ESC, BACKSLASH>> >>
    /\ input # <<>>

\* A chunk has ended right after a backslash that follows bytes of the argument.
C34_BoundaryAfterBackslash ==
    /\ trusted /\ iter = "none"
    /\ state = "ArgumentEscape" /\ arguments # <<>> /\ arguments[1] # <<>>
    /\ input # <<>>

\* A chunk has ended right after the backslash that opens an argument: the
\* argument is there, and empty.
C34_BoundaryAfterOpeningBackslash ==
    /\ trusted /\ iter = "none"
    /\ state = "ArgumentEscape" /\ arguments = << <<>> >>
    /\ input # <<>>

\* A chunk has ended right after `\\@`: the argument is there, and empty, and
\* the next chunk brings a byte for it.
C34_BoundaryAfterEmptyArgument ==
    /\ trusted /\ iter = "none"
    /\ state = "Argument" /\ arguments = << <<>> >>
    /\ input = <<LOWER_Z - 2, LF>>

\* The byte after that boundary has been appended to the argument `\\@` opened.
C34_ExtendedAfterEmptyArgument ==
    /\ trusted /\ result.kind = "Ok"
    /\ result.arguments = << <<LOWER_Z - 2>> >>
    /\ consumed = <<QMARK, 97, SP, BACKSLASH, AT, LOWER_Z - 2, LF>>

(***************************************************************************)
(* C35: progress of the dispatch loop.                                     *)
(***************************************************************************)
\* Every round of the loop, from p until the data runs out or a round unwinds,
\* over all the calls of next() it takes (a call goes on where the one before
\* it returned): the round consumes p >= 1 bytes, no more than remain, and they
\* are the first p bytes of the data.
RECURSIVE RoundsProgress(_)
RoundsProgress(p) ==
    IF p.data = <<>> THEN TRUE
    ELSE /\ round_p(p) >= 1
         /\ round_p(p) <= Len(p.data)
         /\ dispatch(p).p.data = SubSeq(p.data, round_p(p) + 1, Len(p.data))
         /\ dispatch(p).result.kind # "Panic" => RoundsProgress(dispatch(p).p)

\* The number of rounds of the loop until the data of p runs out.
RECURSIVE RoundsLeft(_)
RoundsLeft(p) ==
    IF p.data = <<>> \/ dispatch(p).result.kind = "Panic" THEN 0
    ELSE 1 + RoundsLeft(dispatch(p).p)

\* The sum of the bytes those rounds consume.
RECURSIVE BytesLeft(_)
BytesLeft(p) ==
    IF p.data = <<>> THEN 0
    ELSE IF dispatch(p).result.kind = "Panic" THEN Len(p.data)
    ELSE round_p(p) + BytesLeft(dispatch(p).p)

\* The data consumed by a step: what the iterator no longer holds.
IsSuffix(A, B) == Len(A) <= Len(B) /\ SubSeq(B, Len(B) - Len(A) + 1, Len(B)) = A

\* C35: every round of the dispatch loop consumes p >= 1 bytes, never more than
\* remain, so iterating the sequence of an append to its None takes at most
\* len(data) rounds and consumes every byte of the data once and in order, the
\* bytes consumed by all the rounds adding up to len(data) (stated of every
\* iterator as append makes it, for all the rounds to come); and a call of
\* next() leaves a suffix of the data, a shorter one if there was data, and none
\* when it returns None.
C35_Progress ==
    /\ []((iter = "live" /\ ~panicked) =>
            /\ result.kind = "NoCall" =>
                 /\ RoundsProgress(Cur)
                 /\ RoundsLeft(Cur) <= Len(data)
                 /\ BytesLeft(Cur) = Len(data)
            /\ result.kind = "None" => data = <<>>)
    /\ [][(Next1 /\ ~panicked') =>
            /\ IsSuffix(data', data)
            /\ data # <<>> => Len(data') < Len(data)
            /\ result'.kind = "None" => data' = <<>>
            /\ fully_iterated =>
                 consumed' \o data' = consumed \o data]_vars

\* An iterator just made over `!e \n\e\\\_\0` + LF whole: a round for each
\* byte of the line but those of the name, which has a run of one byte.
C35_Witness ==
    /\ iter = "live" /\ result.kind = "NoCall" /\ trusted
    /\ Len(data) = 14 /\ data[1] = BANG
    /\ RoundsLeft(Cur) = 14

\* A run: the seven bytes of `?A-9z ` + LF take four rounds, the name going in
\* one.
C35_RunInOneRound ==
    /\ iter = "live" /\ result.kind = "NoCall" /\ trusted
    /\ data = <<QMARK, 65, DASH, 57, 122, SP, LF>>
    /\ max_line_length = FIXTURE_LIMIT
    /\ RoundsLeft(Cur) = 4
    /\ round_p(dispatch(Cur).p) = 4

\* Under limit 2 the run of the name is cut at the limit, after one byte; the
\* four bytes that follow go in one round of state Error.
C35_RunCutAtLimit ==
    /\ iter = "live" /\ result.kind = "NoCall" /\ trusted
    /\ data = <<QMARK, 65, DASH, 57, 122, SP, LF>>
    /\ max_line_length = 2
    /\ round_p(dispatch(Cur).p) = 1
    /\ round_p(dispatch(dispatch(Cur).p).p) = 4
    /\ RoundsLeft(Cur) = 4

\* The iterator has returned a message and still has data: the next call goes
\* on from there.
C35_DataLeftAfterItem ==
    /\ iter = "live" /\ trusted /\ result.kind = "Ok"
    /\ data = <<QMARK, 98, LF>>

\* The iterator has returned None: all of the data has been consumed.
C35_Exhausted ==
    /\ iter = "live" /\ trusted /\ result.kind = "None"
    /\ data = <<>> /\ Len(consumed) = 14 /\ Len(outcomes) = 1

(***************************************************************************)
(* C36: the parser's escapes and the formatter's.                          *)
(***************************************************************************)
\* The bytes the formatter writes as an escape.
WithSymbol == {c \in Byte : ESCAPE_SYMBOL[c] # 0}

\* The bytes whose escape symbol is ch (0 is no symbol).
EscapedAs(ch) == {c \in Byte : ESCAPE_SYMBOL[c] # 0 /\ ESCAPE_SYMBOL[c] = ch}

\* C36: the parser's table inverts the formatter's.  The entry of the row of
\* ArgumentEscape for the symbol of a byte c that the formatter escapes has
\* action ArgumentEscaped(c) and next state Argument; the entries of the rows of
\* BeforeArgument and of Argument for a byte whose escape symbol is 0 have
\* action Argument; the bytes with a symbol are the seven CR, LF, TAB, ESC, NUL,
\* backslash and space; and a byte is flagged exactly if it has a symbol.
C36_EscapeTablesInverse ==
    /\ WithSymbol = {CR, LF, TAB, ESC, NUL, BACKSLASH, SP}
    /\ Cardinality(WithSymbol) = 7
    /\ \A c \in Byte : ESCAPE_FLAG[c] <=> ESCAPE_SYMBOL[c] # 0
    /\ \A c \in WithSymbol : ESCAPE_SYMBOL[c] \in Byte
    /\ looked_up.state = "ArgumentEscape" =>
          \A c \in EscapedAs(looked_up.byte) :
              /\ looked_up.entry.action = "ArgumentEscaped"
              /\ looked_up.entry.byte = c
              /\ looked_up.entry.state = "Argument"
    /\ (looked_up.state \in {"BeforeArgument", "Argument"}
        /\ looked_up.byte \notin WithSymbol) =>
          /\ looked_up.entry.action = "Argument"
          /\ looked_up.entry.state = "Argument"

\* The entry for `n` of the row of ArgumentEscape has been read: LF, which the
\* formatter writes as `\n`.
C36_Witness ==
    /\ looked_up.state = "ArgumentEscape" /\ looked_up.byte = LOWER_N
    /\ ESCAPE_SYMBOL[LF] = LOWER_N
    /\ looked_up.entry.action = "ArgumentEscaped" /\ looked_up.entry.byte = LF

\* The symbol `0`, a digit, stands for NUL, and `_` for the space.
C36_ZeroIsNul ==
    /\ looked_up.state = "ArgumentEscape" /\ looked_up.byte = ZERO
    /\ EscapedAs(ZERO) = {NUL}
    /\ looked_up.entry.byte = NUL

C36_UnderscoreIsSpace ==
    /\ looked_up.state = "ArgumentEscape" /\ looked_up.byte = UNDERSCORE
    /\ EscapedAs(UNDERSCORE) = {SP}
    /\ looked_up.entry.byte = SP

\* Bytes without a symbol, taken as they are: `@` where an argument starts, and
\* the byte 255 inside one.
C36_PlainAtStart ==
    /\ looked_up.state = "BeforeArgument" /\ looked_up.byte = AT
    /\ ESCAPE_SYMBOL[AT] = 0 /\ looked_up.entry.action = "Argument"

C36_PlainInside ==
    /\ looked_up.state = "Argument" /\ looked_up.byte = BYTE_MAX
    /\ ~ESCAPE_FLAG[BYTE_MAX] /\ looked_up.entry.action = "Argument"

\* A byte with a symbol is not taken as it is.
C36_EscapedNotPlain ==
    /\ looked_up.state = "Argument" /\ looked_up.byte = ESC
    /\ ESCAPE_FLAG[ESC] /\ looked_up.entry.action = "Error"

(***************************************************************************)
(* C37: what the parser holds of a line in error.                          *)
(***************************************************************************)
\* The bytes of all the arguments of A.
RECURSIVE TotalLen(_)
TotalLen(A) == IF A = <<>> THEN 0 ELSE Len(Head(A)) + TotalLen(Tail(A))

\* The bytes of name and arguments held for the line in progress, by the parser
\* and by the iterator's Transient.
HeldBytes ==
    Len(name) + Len(transient.name) + TotalLen(arguments) + TotalLen(transient.arguments)

\* What p holds of the line: name, arguments and ID.
Holdings(p) ==
    [name |-> p.name, t_name |-> p.t_name, arguments |-> p.arguments,
     t_arguments |-> p.t_arguments, mid |-> p.mid]

\* Every round from p on that starts in state Error, in this call and in those
\* that follow it on the same data, leaves what the parser holds as it is, unless
\* it is the round of the EOL, which returns the error and resets the parser.
RECURSIVE ErrorRoundsInert(_)
ErrorRoundsInert(p) ==
    IF p.data = <<>> \/ dispatch(p).result.kind = "Panic" THEN TRUE
    ELSE /\ p.state = "Error" =>
              /\ p.arguments = <<>> /\ p.t_arguments = <<>>
              /\ \/ /\ dispatch(p).result.kind = "None"
                    /\ dispatch(p).p.state = "Error"
                    /\ Holdings(dispatch(p).p) = Holdings(p)
                 \/ /\ dispatch(p).result.kind = "Err"
                    /\ IsEol(Head(p.data))
                    /\ Holdings(dispatch(p).p) = Holdings(new_parser(0))
         /\ ErrorRoundsInert(dispatch(p).p)

\* C37: while the parser is in state Error no argument is created and no byte is
\* appended to the name, to an argument or to the ID, however many bytes come
\* before the EOL; and in every reachable state the bytes of name and arguments
\* that the parser holds are no more than the bytes counted of the line, which
\* are at most max_line_length.
C37_ErrorLineHoldsNothingMore ==
    /\ [](/\ HeldBytes <= line_length
          /\ HeldBytes <= max_line_length
          /\ state = "Error" => (arguments = <<>> /\ transient.arguments = <<>>)
          /\ (iter = "live" /\ ~panicked /\ result.kind = "NoCall") =>
                ErrorRoundsInert(Cur))
    /\ [][(Next1 /\ state = "Error" /\ result'.kind = "None") =>
            /\ state' = "Error"
            /\ name' \o transient'.name = name \o transient.name
            /\ arguments' = <<>> /\ transient'.arguments = <<>>
            /\ mid' = mid]_vars

\* A line in error under limit 2 has gone on for bytes beyond the limit, among
\* them bytes that would make arguments: the parser holds the one byte of its
\* name and nothing else.
C37_Witness ==
    /\ trusted /\ state = "Error" /\ max_line_length = 2
    /\ error.message = "Line too long"
    /\ Len(SinceEol(consumed)) >= 5
    /\ SP \in {SinceEol(consumed)[i] : i \in 1..Len(SinceEol(consumed))}
    /\ HeldBytes = 1 /\ arguments = <<>>

\* The bound is met: a name as long as the limit allows.
C37_HeldUpToLimit ==
    /\ trusted /\ max_line_length = MaxLimit
    /\ HeldBytes = MaxLimit - 1 /\ line_length = MaxLimit

\* An iterator made while the line is in error, with bytes to come before the
\* EOL and after it.
C37_ErrorRoundsToCome ==
    /\ iter = "live" /\ result.kind = "NoCall" /\ trusted
    /\ state = "Error" /\ Len(data) >= 3
    /\ Eols(data) # {} /\ ~IsEol(data[1])

\* An ID in error: the digits that follow the overflow change nothing.
C37_IdKept ==
    /\ trusted /\ state = "Error" /\ error.message = "Message ID overflowed"
    /\ mid.some /\ iter = "live" /\ result.kind = "None"

(***************************************************************************)
(* C38: the pending error of the parser of src/src/lib.rs.                 *)
(***************************************************************************)
\* A call of next() has unwound on `self.error.take().unwrap()`: apply had the
\* state ErrorEndOfLine to report and no error to take.
ErrorUnwrapFailed == panicked /\ state = "ErrorEndOfLine" /\ ~error.some

\* The line the history ends with has a byte that no state of a message allows
\* where it stands: it makes no message of the grammar, and is within the limit.
InvalidLineDone ==
    /\ consumed # <<>> /\ IsEol(consumed[Len(consumed)])
    /\ result.kind \in {"Ok", "Err", "Panic"}
    /\ Len(LastLine(consumed)) > 1
    /\ ~ValidLine(LastLine(consumed))
    /\ \E i \in 1..Len(LastLine(consumed)) : ~IsBlank(LastLine(consumed)[i])
                                              /\ ~IsEol(LastLine(consumed)[i])

\* C38: in the parser of lib.rs, whenever the state machine reaches
\* ErrorEndOfLine an error has been stored, so that no call of next() fails on
\* `self.error.take().unwrap()`, and a line with an invalid character yields Err
\* at its EOL.
C38_ErrorStoredBeforeEol ==
    /\ ~ErrorUnwrapFailed
    /\ InvalidLineDone => result.kind = "Err"

\* What holds instead.  An error is stored only when the line is too long or
\* the ID overflows; a line that has an invalid character before either makes
\* the call that reads its EOL unwind, and no line yields "Invalid character".
C38_OnlyLengthAndOverflowStored ==
    /\ error.some => error.message \in {"Line too long", "Message ID overflowed"}
    /\ result.kind = "Err" =>
          result.message \in {"Line too long", "Message ID overflowed"}
    /\ panicked <=> ErrorUnwrapFailed
    /\ (state = "Error" /\ ~error.some) => line_length >= 1

\* `?0` has been read: state Error, and no error stored.
C38_ErrorWithoutError ==
    /\ state = "Error" /\ ~error.some /\ ~panicked
    /\ consumed = <<QMARK, ZERO>>
    /\ max_line_length = FIXTURE_LIMIT

\* `?0` + LF has been read: the call has unwound.
C38_UnwrapFailsOnInvalidCharacter ==
    /\ ErrorUnwrapFailed
    /\ consumed = <<QMARK, ZERO, LF>>
    /\ max_line_length = FIXTURE_LIMIT
    /\ outcomes = <<>>

\* A line without a type, `n` + LF, does the same.
C38_UnwrapFailsWithoutType ==
    /\ ErrorUnwrapFailed
    /\ consumed = <<LOWER_N, LF>>

\* The errors that are stored do come out at the EOL.
C38_TooLongIsReported ==
    /\ result.kind = "Err" /\ result.message = "Line too long" /\ ~panicked

C38_OverflowIsReported ==
    /\ result.kind = "Err" /\ result.message = "Message ID overflowed" /\ ~panicked

\* A good line is read as by the parser of parse.rs.
C38_GoodLine ==
    /\ result = OkItem("Request", <<109>>, SomeMid(12), << <<120>> >>)
    /\ consumed = <<QMARK, 109, LBRACKET, 49, 50, RBRACKET, SP, 120, LF>>

====
